---- MODULE Spec2Model ----
(***************************************************************************)
(* Budget ledger (core/budget_manager.py), LLM fallback orchestrator       *)
(* (core/llm_orchestrator.py) and the premium voice tier                   *)
(* (core/voice_manager.py) of the jarvis assistant.                        *)
(*                                                                         *)
(* Money is counted in millionths of a currency unit: calculate_cost       *)
(* rounds every cost to six decimals, so every amount that reaches the     *)
(* ledger from the program is a whole number of millionths.                *)
(***************************************************************************)
EXTENDS Integers, Sequences, FiniteSets, TLC

(***************************************************************************)
(* Bounds of the model.                                                    *)
(***************************************************************************)
\* at most this many record_usage calls / billed provider calls per run
MaxRecords == 2

(***************************************************************************)
(* Names.                                                                  *)
(***************************************************************************)
\* budget_manager.py:141 and :158, the period list in iteration order
PeriodOrder == <<"daily", "weekly", "monthly">>
Periods == {PeriodOrder[i] : i \in 1..Len(PeriodOrder)}

\* the service names that reach the ledger or name a provider: the three of
\* default_limits and one without an entry there
Services == {"openai", "claude", "elevenlabs", "llama"}

\* budget_manager.py:19-35, in millionths
default_limits ==
  [s \in {"openai", "claude", "elevenlabs"} |->
     CASE s = "openai"     -> [p \in Periods |-> CASE p = "daily"   -> 1000000
                                                   [] p = "weekly"  -> 6000000
                                                   [] p = "monthly" -> 25000000]
       [] s = "claude"     -> [p \in Periods |-> CASE p = "daily"   -> 750000
                                                   [] p = "weekly"  -> 4500000
                                                   [] p = "monthly" -> 15000000]
       [] s = "elevenlabs" -> [p \in Periods |-> CASE p = "daily"   -> 500000
                                                   [] p = "weekly"  -> 3000000
                                                   [] p = "monthly" -> 10000000]]

\* the empty dict {}
EmptyDict == [x \in {} |-> 0]

\* dict.get(key, default)
DictGet(d, k, default) == IF k \in DOMAIN d THEN d[k] ELSE default

\* d[k] = v on a dict (adds the key when it is missing)
DictSet(d, k, v) == [x \in (DOMAIN d) \cup {k} |-> IF x = k THEN v ELSE d[x]]

VARIABLES
  today,        \* datetime.now(): the index of the current day in Calendar
  budget_data,  \* BudgetManager.budget_data: [usage, limits, last_reset]
  budget_file,  \* the persisted document: [state, doc]
  ret,          \* the call made by the last step: what was asked, what came back
  records,      \* number of direct record_usage calls made so far
  llm_chain,    \* LLMOrchestrator.llm_chain: the "available" flag of each provider
  pc,           \* where the running get_response is: idle, try, call, record
  pos,          \* the (provider, model) pair of the chain being attempted
  request,      \* the running request: its tokens, and usage when it started
  trace,        \* what the running (or last) get_response did, in order
  result,       \* the dict the last get_response returned
  requests,     \* number of get_response calls started so far
  clients,      \* concurrent callers of the ledger: where each one is
  context_history,  \* LLMOrchestrator.context_history: the list of messages
  compressed,   \* what the last _compress_context was given and returned
  messages,     \* the message list the last get_response passed to the providers
  router,       \* MCPRouter: agents, capability_map, last_health_check
  clock,        \* time.time(), in seconds
  route,        \* the running (or last) route_request
  tasks,        \* concurrent callers of the router: where each one is
  rounds,       \* time.time() at the start of every health-check round
  completed,    \* the _call_agent calls that returned: times, successes
  calc,         \* the last _handle_calculator_request: its input and outcome
  voice,        \* VoiceManager: current_tier and the tiers' "available" flags
  speech,       \* the running (or last) speak
  app,          \* AdvancedJarvis: the command of the main loop being handled
  provider      \* the LLM or voice provider object last constructed

ledger_vars == <<budget_data, budget_file, ret, records>>
ctx_vars == <<context_history, compressed, messages>>
task_vars == <<tasks, rounds, completed>>
mcp_vars == <<router, clock, route, task_vars, calc, app, provider>>
voice_vars == <<voice, speech>>
llm_vars == <<llm_chain, pc, pos, request, trace, result, requests, ctx_vars>>
vars == <<today, budget_data, budget_file, ret, records,
          llm_chain, pc, pos, request, trace, result, requests, clients,
          context_history, compressed, messages, router, clock, route,
          tasks, rounds, completed, calc, voice, speech, app, provider>>

(***************************************************************************)
(* datetime.now() and its three strftime keys ("%Y-%m-%d", "%Y-W%U",       *)
(* "%Y-%m").  The clock runs over four consecutive days: from the first to *)
(* the second the week key changes, from the second to the third only the  *)
(* day, from the third to the fourth the month.                            *)
(***************************************************************************)
Calendar ==
  << [daily |-> "2026-11-28", weekly |-> "2026-W47", monthly |-> "2026-11"],
     [daily |-> "2026-11-29", weekly |-> "2026-W48", monthly |-> "2026-11"],
     [daily |-> "2026-11-30", weekly |-> "2026-W48", monthly |-> "2026-11"],
     [daily |-> "2026-12-01", weekly |-> "2026-W48", monthly |-> "2026-12"] >>

\* the keys _check_and_reset_periods and _load_budget_data compute
PeriodKeys(day) == Calendar[day]

(***************************************************************************)
(* BudgetManager.costs (lines 40-57), in millionths per 1000 tokens or     *)
(* characters, and calculate_cost.                                         *)
(***************************************************************************)
costs ==
  [openai |->
     ("gpt-4.1"       :> [input |-> 15000, output |-> 60000]) @@
     ("gpt-4o"        :> [input |-> 5000,  output |-> 15000]) @@
     ("gpt-4o-mini"   :> [input |-> 1500,  output |-> 6000])  @@
     ("gpt-4-turbo"   :> [input |-> 10000, output |-> 30000]) @@
     ("gpt-4"         :> [input |-> 30000, output |-> 60000]) @@
     ("gpt-3.5-turbo" :> [input |-> 1500,  output |-> 2000]),
   claude |->
     ("claude-3-sonnet" :> [input |-> 3000, output |-> 15000]) @@
     ("claude-3-haiku"  :> [input |-> 250,  output |-> 1250]),
   elevenlabs |->
     ("standard" :> 180000) @@
     ("premium"  :> 300000)]

\* round(cost, 6) of the amount n/d millionths: to the nearest millionth,
\* a tie to the even one
Round6(n, d) ==
  LET q == n \div d
      r == n % d
  IN IF 2 * r < d THEN q
     ELSE IF 2 * r > d THEN q + 1
     ELSE IF q % 2 = 0 THEN q ELSE q + 1

\* calculate_cost, lines 111-127
calculate_cost(service, model, input_tokens, output_tokens, characters) ==
  IF service \notin DOMAIN costs THEN 0
  ELSE IF service \in {"openai", "claude"}
       THEN IF model \in DOMAIN costs[service]
            THEN Round6(input_tokens * costs[service][model].input
                          + output_tokens * costs[service][model].output, 1000)
            ELSE 0
       ELSE IF service = "elevenlabs" /\ model \in DOMAIN costs[service]
            THEN Round6(characters * costs[service][model], 1000)
            ELSE 0

(***************************************************************************)
(* BudgetManager                                                           *)
(***************************************************************************)
\* _load_budget_data with no budget file: the default document
FreshBudgetData(nw) ==
  [usage |-> EmptyDict, limits |-> default_limits, last_reset |-> nw]

\* a reset that tests the weekly marker against the day key (line 97 with
\* current_day in place of current_week)
check_and_reset_WeeklyByDay(bd, nw) ==
  LET stale(p) == IF p = "weekly" THEN bd.last_reset[p] # nw["daily"]
                                  ELSE bd.last_reset[p] # nw[p]
  IN [bd EXCEPT
        !.usage = [s \in DOMAIN bd.usage |->
                     [p \in Periods |-> IF stale(p) THEN 0 ELSE bd.usage[s][p]]],
        !.last_reset = [p \in Periods |-> IF stale(p) THEN nw[p] ELSE bd.last_reset[p]]]

\* a reset that zeroes the daily bucket only and still stores all the keys
check_and_reset_DailyOnly(bd, nw) ==
  [bd EXCEPT
     !.usage = [s \in DOMAIN bd.usage |->
                  [p \in Periods |->
                     IF p = "daily" /\ bd.last_reset[p] # nw[p] THEN 0
                     ELSE bd.usage[s][p]]],
     !.last_reset = nw]

\* _check_and_reset_periods: for each period whose key differs from
\* last_reset, zero that period of every service in usage and store the key
_check_and_reset_periods(bd, nw) ==
  [bd EXCEPT
     !.usage = [s \in DOMAIN bd.usage |->
                  [p \in Periods |->
                     IF bd.last_reset[p] # nw[p] THEN 0 ELSE bd.usage[s][p]]],
     !.last_reset = [p \in Periods |->
                       IF bd.last_reset[p] # nw[p] THEN nw[p] ELSE bd.last_reset[p]]]

\* lines 134-135 and 154-155: create the usage entry of a service
EnsureUsageEntry(bd, service) ==
  IF service \notin DOMAIN bd.usage
  THEN [bd EXCEPT !.usage = DictSet(bd.usage, service, [p \in Periods |-> 0])]
  ELSE bd

\* line 138: the limits that apply to a service
LimitsOf(bd, service) ==
  DictGet(bd.limits, service, DictGet(default_limits, service, EmptyDict))

\* the comparison of line 144 written with >= instead of >
WithinLimits_AtLimitDenied(usage_s, limits_s, estimated_cost) ==
  \A i \in 1..Len(PeriodOrder) :
     LET period == PeriodOrder[i] IN
       period \in DOMAIN limits_s =>
          ~(DictGet(usage_s, period, 0) + estimated_cost >= limits_s[period])

\* lines 141-147: the loop over the periods; TRUE iff no configured period
\* has current_usage + estimated_cost > limit
WithinLimits(usage_s, limits_s, estimated_cost) ==
  \A i \in 1..Len(PeriodOrder) :
     LET period == PeriodOrder[i] IN
       period \in DOMAIN limits_s =>
          ~(DictGet(usage_s, period, 0) + estimated_cost > limits_s[period])

\* can_afford: the ledger it leaves and the boolean it returns
can_afford(bd, service, estimated_cost, nw) ==
  LET bd1 == EnsureUsageEntry(_check_and_reset_periods(bd, nw), service)
  IN [bd |-> bd1,
      ok |-> WithinLimits(bd1.usage[service], LimitsOf(bd1, service), estimated_cost)]

\* a record_usage whose loop of line 158 leaves out the monthly bucket
record_usage_NoMonthly(bd, service, actual_cost, nw) ==
  LET bd1 == EnsureUsageEntry(_check_and_reset_periods(bd, nw), service)
  IN [bd1 EXCEPT !.usage[service] =
        [p \in Periods |-> IF p = "monthly" THEN bd1.usage[service][p]
                            ELSE bd1.usage[service][p] + actual_cost]]

\* record_usage up to the save: the ledger after lines 152-159
record_usage(bd, service, actual_cost, nw) ==
  LET bd1 == EnsureUsageEntry(_check_and_reset_periods(bd, nw), service)
  IN [bd1 EXCEPT !.usage[service] =
        [p \in Periods |-> bd1.usage[service][p] + actual_cost]]

\* set_budget_limit up to the save: lines 191-194
set_budget_limit(bd, service, period, amount) ==
  LET lim == DictGet(bd.limits, service, EmptyDict)
  IN [bd EXCEPT !.limits = DictSet(bd.limits, service, DictSet(lim, period, amount))]

\* _save_budget_data: open(budget_file, 'w') and json.dump.  The write
\* either completes, or open() raises and the file is left as it was.
SaveOutcomes(bd, file) ==
  { [raised |-> FALSE, file |-> [state |-> "written", doc |-> bd]],
    [raised |-> TRUE,  file |-> file] }

(***************************************************************************)
(* The ledger called directly: one action per public method.               *)
(***************************************************************************)
\* amounts a caller passes to can_afford and record_usage
CostChoices == {0, 500000}
\* periods and amounts a caller passes to set_budget_limit
LimitPeriods == {"weekly"}
LimitChoices == {500000}

now == PeriodKeys(today)

NoCall == [op |-> "none", service |-> "", period |-> "", cost |-> 0,
           ok |-> FALSE, raised |-> FALSE]

\* no request yet, nothing returned yet
NoRequest == [input_tokens |-> 0, output_tokens |-> 0, start |-> EmptyDict]
NoResult == [source |-> "", model |-> "", cost |-> 0, success |-> FALSE]

\* the two concurrent callers of the ledger
Clients == {1, 2}
NoClients == [c \in Clients |-> [pc |-> "idle", cost |-> 0, seen |-> EmptyDict]]

(***************************************************************************)
(* MCPAgent and MCPRouter (core/mcp_router.py).  A float that is a         *)
(* quotient of two counters is kept as the pair [num, den]; response times *)
(* are whole tenths of a second.                                           *)
(***************************************************************************)
\* line 56
health_check_interval == 30

\* line 33: the number of response times an agent keeps
KeptResponseTimes == 10

\* MCPAgent.__init__, lines 12-24
MCPAgent(capabilities, priority) ==
  [capabilities |-> capabilities, priority |-> priority, is_healthy |-> TRUE,
   response_times |-> <<>>, success_rate |-> [num |-> 1, den |-> 1],
   total_requests |-> 0, successful_requests |-> 0]

\* statistics that drop the newest response time instead of the oldest
update_stats_DropsNewest(agent, success, response_time) ==
  LET total == agent.total_requests + 1
      successful == agent.successful_requests + (IF success THEN 1 ELSE 0)
      times == Append(agent.response_times, response_time)
  IN [agent EXCEPT
        !.total_requests = total,
        !.successful_requests = successful,
        !.response_times = IF Len(times) > KeptResponseTimes
                           THEN SubSeq(times, 1, KeptResponseTimes) ELSE times,
        !.success_rate = [num |-> successful, den |-> total]]

\* MCPAgent.update_stats, lines 26-36
update_stats(agent, success, response_time) ==
  LET total == agent.total_requests + 1
      successful == agent.successful_requests + (IF success THEN 1 ELSE 0)
      times == Append(agent.response_times, response_time)
  IN [agent EXCEPT
        !.total_requests = total,
        !.successful_requests = successful,
        !.response_times = IF Len(times) > KeptResponseTimes THEN Tail(times) ELSE times,
        !.success_rate = [num |-> successful, den |-> total]]

RECURSIVE SumSeq(_)
SumSeq(seq) == IF seq = <<>> THEN 0 ELSE Head(seq) + SumSeq(Tail(seq))

\* MCPAgent.get_avg_response_time, lines 38-40
get_avg_response_time(agent) ==
  IF agent.response_times # <<>>
  THEN [num |-> SumSeq(agent.response_times), den |-> Len(agent.response_times)]
  ELSE [num |-> 0, den |-> 1]

\* comparison of two quotients with positive denominators
QLess(x, y) == x.num * y.den < y.num * x.den
QEqual(x, y) == x.num * y.den = y.num * x.den

\* a sort key that puts the success rate before the priority
KeyLess_RateFirst(a, b) ==
  \/ QLess(b.success_rate, a.success_rate)
  \/ /\ QEqual(a.success_rate, b.success_rate)
     /\ \/ a.priority < b.priority
        \/ /\ a.priority = b.priority
           /\ QLess(get_avg_response_time(a), get_avg_response_time(b))

\* line 190: the key (priority, -success_rate, avg response time) of a is
\* smaller than that of b, tuples compared item by item
KeyLess(a, b) ==
  \/ a.priority < b.priority
  \/ /\ a.priority = b.priority
     /\ \/ QLess(b.success_rate, a.success_rate)
        \/ /\ QEqual(a.success_rate, b.success_rate)
           /\ QLess(get_avg_response_time(a), get_avg_response_time(b))

\* list.sort(key=...): ascending and stable
RECURSIVE SortByKey(_, _)
SortByKey(names, agents) ==
  IF names = <<>> THEN <<>>
  ELSE LET sorted == SortByKey(SubSeq(names, 1, Len(names) - 1), agents)
           x == names[Len(names)]
           k == Cardinality({i \in 1..Len(sorted) :
                               ~KeyLess(agents[x], agents[sorted[i]])})
       IN SubSeq(sorted, 1, k) \o <<x>> \o SubSeq(sorted, k + 1, Len(sorted))

\* a lookup that also returns the unhealthy agents
_get_agents_for_capability_AnyHealth(r, capability) ==
  LET agent_names == DictGet(r.capability_map, capability, <<>>)
      registered == SelectSeq(agent_names, LAMBDA n : n \in DOMAIN r.agents)
  IN SortByKey(registered, r.agents)

\* _get_agents_for_capability, lines 182-192: the names of the agents returned
_get_agents_for_capability(r, capability) ==
  LET agent_names == DictGet(r.capability_map, capability, <<>>)
      registered == SelectSeq(agent_names, LAMBDA n : n \in DOMAIN r.agents)
      healthy_agents == SelectSeq(registered, LAMBDA n : r.agents[n].is_healthy)
  IN SortByKey(healthy_agents, r.agents)

\* lines 111-115: the capability map after an agent declared capabilities
RECURSIVE MapCapabilities(_, _, _)
MapCapabilities(capability_map, name, capabilities) ==
  IF capabilities = <<>> THEN capability_map
  ELSE LET capability == Head(capabilities)
           names == DictGet(capability_map, capability, <<>>)
           added == IF \E i \in 1..Len(names) : names[i] = name
                    THEN names ELSE Append(names, name)
       IN MapCapabilities(DictSet(capability_map, capability, added),
                          name, Tail(capabilities))

\* register_agent, lines 103-117
register_agent(r, name, capabilities, priority) ==
  [r EXCEPT !.agents = DictSet(r.agents, name, MCPAgent(capabilities, priority)),
            !.capability_map = MapCapabilities(r.capability_map, name, capabilities)]

\* lines 73-98
default_agents ==
  << [name |-> "weather_agent", priority |-> 1,
      capabilities |-> <<"weather", "forecast", "climate">>],
     [name |-> "search_agent", priority |-> 2,
      capabilities |-> <<"web_search", "research", "information">>],
     [name |-> "code_agent", priority |-> 1,
      capabilities |-> <<"code_analysis", "programming", "debug">>],
     [name |-> "data_agent", priority |-> 2,
      capabilities |-> <<"data_analysis", "visualization", "statistics">>] >>

\* lines 100-101
RECURSIVE RegisterAll(_, _)
RegisterAll(r, configs) ==
  IF configs = <<>> THEN r
  ELSE RegisterAll(register_agent(r, Head(configs).name, Head(configs).capabilities,
                                  Head(configs).priority),
                   Tail(configs))

\* lines 60-65
system_capabilities == {"time", "weather", "calculator", "system_info"}

\* MCPRouter.__init__, lines 51-68
NewRouter ==
  RegisterAll([agents |-> EmptyDict, capability_map |-> EmptyDict,
               last_health_check |-> 0],
              default_agents)

NoRouteResult == [kind |-> "none", success |-> FALSE, agent |-> ""]

\* no route_request yet
NoRoute ==
  [pc |-> "idle", count |-> 0, capability |-> "", max_retries |-> 0,
   agents |-> <<>>, seen |-> EmptyDict, attempt |-> 0, index |-> 0,
   log |-> <<>>, result |-> NoRouteResult]

\* LLMResponse / VoiceResponse (base_provider.py lines 11-27,
\* base_voice_provider.py lines 11-26): what a call returned; asked is the
\* model or voice the caller passed
NoResponse ==
  [kind |-> "none", success |-> FALSE, content |-> "", cost |-> 0,
   asked |-> "None"]

\* the environment a provider is constructed in: a recognized key variable
\* is set, the client package can be imported, the backend answers
NoEnv == [key |-> FALSE, package |-> FALSE, backend |-> FALSE]

\* no provider has been constructed
NoProvider ==
  [class |-> "", pc |-> "none", env |-> NoEnv, configured |-> FALSE,
   is_available |-> FALSE, api_key |-> FALSE, client |-> FALSE,
   default_model |-> "None", output_styles |-> EmptyDict,
   default_voice |-> "None",
   max_text_length |-> 0, total_requests |-> 0, successful_requests |-> 0,
   session |-> FALSE, response |-> NoResponse]

\* the main loop is waiting for a command
NoApp ==
  [pc |-> "idle", count |-> 0, command |-> {}, routed |-> "",
   llm_invoked |-> FALSE, spent |-> FALSE, result |-> [none |-> TRUE],
   shown |-> "nothing"]

\* the router after construction; time.time() is past the first interval
\* the threads that call route_request_sync
Callers == {"t1", "t2"}

\* a caller that is not inside the router
NoTask == [pc |-> "idle", calls |-> 0, success |-> FALSE, response_time |-> 0,
           load |-> 0]

\* no _call_agent has returned yet
NoCalls == [times |-> <<>>, successes |-> 0]

TasksAtRest ==
  /\ tasks = [c \in Callers |-> NoTask]
  /\ rounds = <<>>
  /\ completed = NoCalls

\* no calculator request yet
NoCalc == [expression |-> <<>>, handled |-> FALSE, evaluated |-> FALSE,
           success |-> FALSE, error |-> ""]

MCPAtRest ==
  /\ router = NewRouter
  /\ clock = health_check_interval
  /\ route = NoRoute
  /\ TasksAtRest
  /\ calc = NoCalc
  /\ app = NoApp
  /\ provider = NoProvider

(***************************************************************************)
(* VoiceManager (voice_manager.py).  The tiers of lines 20-56, best first, *)
(* with cost_per_char in millionths; "available" is what the import and    *)
(* setup probes of lines 82-191 left in each tier.                         *)
(***************************************************************************)
voice_tiers ==
  << [name |-> "elevenlabs", cost_per_char |-> 180],
     [name |-> "edge_tts",   cost_per_char |-> 0],
     [name |-> "gtts",       cost_per_char |-> 0],
     [name |-> "pyttsx3",    cost_per_char |-> 0],
     [name |-> "text_only",  cost_per_char |-> 0] >>

TierNames == {voice_tiers[i].name : i \in 1..Len(voice_tiers)}

\* tier_names.index(name), line 385
TierIndex(name) == CHOOSE i \in 0..(Len(voice_tiers) - 1) : voice_tiers[i + 1].name = name

\* lines 15-17 and 79-80: text_only is available whatever the probes say
NewVoiceManager(available) ==
  [current_tier |-> 0,
   available |-> [n \in TierNames |-> n = "text_only" \/ available[n]]]

NoSpeechResult == [success |-> FALSE, tier_used |-> "", cost |-> 0,
                   fallback_count |-> 0, error |-> ""]

\* no speak yet
NoSpeech == [pc |-> "idle", count |-> 0, characters |-> 0, start |-> 0,
             index |-> 0, fallback_count |-> 0, tried |-> <<>>,
             synthesized |-> 0, result |-> NoSpeechResult]

VoiceAtRest ==
  /\ voice = NewVoiceManager([n \in TierNames |-> TRUE])
  /\ speech = NoSpeech

\* _compress_context not called yet
NotCompressed == [done |-> FALSE, given |-> <<>>, out |-> <<>>]

\* __init__ line 18: no conversation yet
CtxAtRest ==
  /\ context_history = <<>>
  /\ compressed = NotCompressed
  /\ messages = <<>>

\* the orchestrator at rest, with only the emergency responder available
LLMAtRest ==
  /\ llm_chain = [n \in {"openai", "claude", "llama", "emergency"} |-> n = "emergency"]
  /\ pc = "idle"
  /\ pos = 1
  /\ request = NoRequest
  /\ trace = <<>>
  /\ result = NoResult
  /\ requests = 0
  /\ clients = NoClients

\* construction with no budget file (lines 59-76)
LedgerAtRest ==
  /\ today = 1
  /\ budget_data = FreshBudgetData(now)
  /\ budget_file = [state |-> "missing", doc |-> FreshBudgetData(now)]
  /\ ret = NoCall
  /\ records = 0

InitLedger ==
  /\ LedgerAtRest
  /\ LLMAtRest
  /\ CtxAtRest
  /\ MCPAtRest
  /\ VoiceAtRest

\* time passes between two calls: one day or several
Tick ==
  /\ \E d \in (today + 1)..Len(Calendar) : today' = d
  /\ ret' = NoCall
  /\ UNCHANGED <<budget_data, budget_file, records>>
  /\ UNCHANGED <<llm_vars, clients>>
  /\ UNCHANGED mcp_vars
  /\ UNCHANGED voice_vars

CanAfford(service, cost) ==
  LET r == can_afford(budget_data, service, cost, now) IN
  /\ budget_data' = r.bd
  /\ ret' = [NoCall EXCEPT !.op = "can_afford", !.service = service,
                           !.cost = cost, !.ok = r.ok]
  /\ UNCHANGED <<today, budget_file, records>>
  /\ UNCHANGED <<llm_vars, clients>>
  /\ UNCHANGED mcp_vars
  /\ UNCHANGED voice_vars

RecordUsage(service, cost) ==
  /\ records < MaxRecords
  /\ budget_data' = record_usage(budget_data, service, cost, now)
  /\ \E o \in SaveOutcomes(budget_data', budget_file) :
        /\ budget_file' = o.file
        /\ ret' = [NoCall EXCEPT !.op = "record_usage", !.service = service,
                                 !.cost = cost, !.raised = o.raised]
  /\ records' = records + 1
  /\ UNCHANGED today
  /\ UNCHANGED <<llm_vars, clients>>
  /\ UNCHANGED mcp_vars
  /\ UNCHANGED voice_vars

\* get_budget_status: the reset is its only effect on the ledger
GetBudgetStatus ==
  /\ budget_data' = _check_and_reset_periods(budget_data, now)
  /\ ret' = [NoCall EXCEPT !.op = "get_budget_status"]
  /\ UNCHANGED <<today, budget_file, records>>
  /\ UNCHANGED <<llm_vars, clients>>
  /\ UNCHANGED mcp_vars
  /\ UNCHANGED voice_vars

SetBudgetLimit(service, period, amount) ==
  /\ budget_data' = set_budget_limit(budget_data, service, period, amount)
  /\ \E o \in SaveOutcomes(budget_data', budget_file) :
        /\ budget_file' = o.file
        /\ ret' = [NoCall EXCEPT !.op = "set_budget_limit", !.service = service,
                                 !.period = period, !.cost = amount,
                                 !.raised = o.raised]
  /\ UNCHANGED <<today, records>>
  /\ UNCHANGED <<llm_vars, clients>>
  /\ UNCHANGED mcp_vars
  /\ UNCHANGED voice_vars

\* the services and costs the direct calls are made with
LedgerServices == {"openai", "llama"}

NextLedger ==
  \/ Tick
  \/ \E s \in LedgerServices, c \in CostChoices : CanAfford(s, c)
  \/ \E s \in LedgerServices, c \in CostChoices : RecordUsage(s, c)
  \/ GetBudgetStatus
  \/ \E s \in LedgerServices, p \in LimitPeriods, a \in LimitChoices :
        SetBudgetLimit(s, p, a)

SpecLedger == InitLedger /\ [][NextLedger]_vars

(***************************************************************************)
(* LLMOrchestrator.get_response                                            *)
(***************************************************************************)
\* at most this many get_response calls per run
MaxRequests == 1

\* llm_chain (lines 22-47) flattened: the (provider, model) pairs in the
\* order the two nested loops of lines 299 and 308 visit them
Pairs ==
  << [name |-> "openai",    model |-> "gpt-4"],
     [name |-> "openai",    model |-> "gpt-3.5-turbo"],
     [name |-> "claude",    model |-> "claude-3-sonnet"],
     [name |-> "claude",    model |-> "claude-3-haiku"],
     [name |-> "llama",     model |-> "llama-7b"],
     [name |-> "llama",     model |-> "llama-13b"],
     [name |-> "emergency", model |-> "hardcoded"] >>

LLMNames == {Pairs[i].name : i \in 1..Len(Pairs)}
PaidNames == {"openai", "claude"}

\* sum of _estimate_tokens over the messages of a request (lines 131, 178)
InputTokens == {100, 16000}
\* _estimate_tokens of the reply (lines 149, 196)
OutputTokens == {1000}

\* a loop that visits every provider, without the test of line 300
NextPairFrom_NoSkip(chain, p) ==
  IF p <= Len(Pairs) THEN p ELSE Len(Pairs) + 1

\* loops that end one pair early: the last chain entry is never visited
NextPairFrom_DropsLast(chain, p) ==
  LET later == {q \in p..(Len(Pairs) - 1) : chain[Pairs[q].name]}
  IN IF later = {} THEN Len(Pairs) + 1
     ELSE CHOOSE q \in later : \A q2 \in later : q <= q2

\* the first pair at or after position p whose provider is available
\* (line 300 skips the others); Len(Pairs) + 1 when the loops are over
NextPairFrom(chain, p) ==
  LET later == {q \in p..Len(Pairs) : chain[Pairs[q].name]}
  IN IF later = {} THEN Len(Pairs) + 1
     ELSE CHOOSE q \in later : \A q2 \in later : q <= q2

\* lines 341-351: the dict returned when the loops end without a success
Fallthrough ==
  [source |-> "emergency_fallback", model |-> "hardcoded", cost |-> 0,
   success |-> FALSE]

\* lines 328-335: the dict returned on success
Success(p, cost) ==
  [source |-> Pairs[p].name, model |-> Pairs[p].model, cost |-> cost,
   success |-> TRUE]

Event(ev, p, cost) == [ev |-> ev, at |-> p, cost |-> cost]

\* line 137: the estimate _call_openai and _call_claude pass to can_afford
EstimatedCost(p, req) ==
  calculate_cost(Pairs[p].name, Pairs[p].model,
                 req.input_tokens, req.input_tokens \div 2, 0)

\* lines 150 and 197: the cost they pass to record_usage
ActualCost(p, req) ==
  calculate_cost(Pairs[p].name, Pairs[p].model,
                 req.input_tokens, req.output_tokens, 0)

\* lines 337-339, and 341-351 once the loops are over: the attempt of the
\* pair at pos raised, go on with the next pair
AttemptFailed ==
  LET q == NextPairFrom(llm_chain, pos + 1) IN
  IF q > Len(Pairs)
  THEN /\ pc' = "idle"
       /\ pos' = q
       /\ result' = Fallthrough
  ELSE /\ pc' = "try"
       /\ pos' = q
       /\ UNCHANGED result

\* lines 320-335: the attempt succeeded, return
Return(cost) ==
  /\ pc' = "idle"
  /\ result' = Success(pos, cost)
  /\ UNCHANGED pos

\* get_response is called: lines 282-299
GetResponse(input_tokens) ==
  /\ pc = "idle"
  /\ requests < MaxRequests
  /\ requests' = requests + 1
  /\ request' = [input_tokens |-> input_tokens, output_tokens |-> 0,
                  start |-> budget_data.usage]
  /\ trace' = <<>>
  /\ LET q == NextPairFrom(llm_chain, 1) IN
       IF q > Len(Pairs)
       THEN pc' = "idle" /\ pos' = q /\ result' = Fallthrough
       ELSE pc' = "try" /\ pos' = q
            /\ result' = NoResult
  /\ ret' = NoCall
  /\ UNCHANGED <<today, budget_data, budget_file, records, llm_chain, clients>>
  /\ UNCHANGED ctx_vars
  /\ UNCHANGED mcp_vars
  /\ UNCHANGED voice_vars

\* the budget check without the raise of lines 136-137 / 183-184: the
\* verdict of can_afford is computed and the API call is made regardless
CheckBudget_NoGate ==
  /\ pc = "try"
  /\ Pairs[pos].name \in PaidNames
  /\ LET est == EstimatedCost(pos, request)
         r == can_afford(budget_data, Pairs[pos].name, est, now)
     IN /\ budget_data' = r.bd
        /\ trace' = Append(trace, Event(IF r.ok THEN "afforded" ELSE "denied", pos, est))
        /\ pc' = "call"
        /\ UNCHANGED <<pos, result>>
  /\ ret' = NoCall
  /\ UNCHANGED <<today, budget_file, records, llm_chain, request, requests, clients>>
  /\ UNCHANGED ctx_vars
  /\ UNCHANGED mcp_vars
  /\ UNCHANGED voice_vars

\* _call_openai / _call_claude up to the budget check (lines 131-137,
\* 178-184): a denial raises and the pair is over
CheckBudget ==
  /\ pc = "try"
  /\ Pairs[pos].name \in PaidNames
  /\ LET est == EstimatedCost(pos, request)
         r == can_afford(budget_data, Pairs[pos].name, est, now)
     IN /\ budget_data' = r.bd
        /\ IF r.ok
           THEN /\ trace' = Append(trace, Event("afforded", pos, est))
                /\ pc' = "call"
                /\ UNCHANGED <<pos, result>>
           ELSE /\ trace' = Append(trace, Event("denied", pos, est))
                /\ AttemptFailed
  /\ ret' = NoCall
  /\ UNCHANGED <<today, budget_file, records, llm_chain, request, requests, clients>>
  /\ UNCHANGED ctx_vars
  /\ UNCHANGED mcp_vars
  /\ UNCHANGED voice_vars

\* the API call of lines 139-146 / 186-193: it returns a reply or raises
CallPaid ==
  /\ pc = "call"
  /\ \/ \E out \in OutputTokens :
          /\ request' = [request EXCEPT !.output_tokens = out]
          /\ trace' = Append(trace, Event("api_ok", pos, 0))
          /\ pc' = "record"
          /\ UNCHANGED <<pos, result>>
     \/ /\ trace' = Append(trace, Event("api_failed", pos, 0))
        /\ AttemptFailed
        /\ UNCHANGED request
  /\ ret' = NoCall
  /\ UNCHANGED <<today, budget_data, budget_file, records, llm_chain, requests, clients>>
  /\ UNCHANGED ctx_vars
  /\ UNCHANGED mcp_vars
  /\ UNCHANGED voice_vars

\* lines 148-153 / 195-200: record the actual cost and return; when the
\* save inside record_usage raises, the except of line 155 / 202 turns it
\* into a failure of the pair
RecordAndReturn ==
  /\ pc = "record"
  /\ LET cost == ActualCost(pos, request) IN
       /\ budget_data' = record_usage(budget_data, Pairs[pos].name, cost, now)
       /\ \E o \in SaveOutcomes(budget_data', budget_file) :
             /\ budget_file' = o.file
             /\ IF o.raised
                THEN /\ trace' = Append(trace, Event("billed_then_raised", pos, cost))
                     /\ AttemptFailed
                ELSE /\ trace' = Append(trace, Event("billed", pos, cost))
                     /\ Return(cost)
  /\ ret' = NoCall
  /\ UNCHANGED <<today, records, llm_chain, request, requests, clients>>
  /\ UNCHANGED ctx_vars
  /\ UNCHANGED mcp_vars
  /\ UNCHANGED voice_vars

\* _call_llama, lines 205-243: the local server answers 200 or the call raises
CallLlama ==
  /\ pc = "try"
  /\ Pairs[pos].name = "llama"
  /\ \/ /\ trace' = Append(trace, Event("api_ok", pos, 0))
        /\ Return(0)
     \/ /\ trace' = Append(trace, Event("api_failed", pos, 0))
        /\ AttemptFailed
  /\ ret' = NoCall
  /\ UNCHANGED <<today, budget_data, budget_file, records, llm_chain, request, requests, clients>>
  /\ UNCHANGED ctx_vars
  /\ UNCHANGED mcp_vars
  /\ UNCHANGED voice_vars

\* lines 316-318: the hardcoded response
Emergency ==
  /\ pc = "try"
  /\ Pairs[pos].name = "emergency"
  /\ trace' = Append(trace, Event("emergency", pos, 0))
  /\ Return(0)
  /\ ret' = NoCall
  /\ UNCHANGED <<today, budget_data, budget_file, records, llm_chain, request, requests, clients>>
  /\ UNCHANGED ctx_vars
  /\ UNCHANGED mcp_vars
  /\ UNCHANGED voice_vars

\* limits an earlier run of the assistant stored with set_budget_limit
LLMLimitServices == {"openai", "claude"}
LLMLimitChoices == {40000}

\* the budget documents _load_budget_data can find at construction: none,
\* or the default one with the daily limit of some services set earlier
StoredLimits ==
  {[s \in DOMAIN default_limits |->
      IF s \in lowered THEN [default_limits[s] EXCEPT !["daily"] = a]
      ELSE default_limits[s]] :
     lowered \in SUBSET LLMLimitServices, a \in LLMLimitChoices}

\* construction: the ledger is loaded (lines 59-76), the three probes of
\* lines 60-76 of the orchestrator come out either way, the emergency
\* responder is always available
Init ==
  /\ today = 1
  /\ \E lim \in StoredLimits :
        /\ budget_data = [FreshBudgetData(now) EXCEPT !.limits = lim]
        /\ budget_file = IF lim = default_limits
                         THEN [state |-> "missing", doc |-> budget_data]
                         ELSE [state |-> "written", doc |-> budget_data]
  /\ ret = NoCall
  /\ records = 0
  /\ llm_chain \in {c \in [LLMNames -> BOOLEAN] : c["emergency"]}
  /\ pc = "idle"
  /\ pos = 1
  /\ request = NoRequest
  /\ trace = <<>>
  /\ result = NoResult
  /\ requests = 0
  /\ clients = NoClients
  /\ CtxAtRest
  /\ MCPAtRest
  /\ VoiceAtRest

Next ==
  \/ \E n \in InputTokens : GetResponse(n)
  \/ CheckBudget
  \/ CallPaid
  \/ RecordAndReturn
  \/ CallLlama
  \/ Emergency

Spec == Init /\ [][Next]_vars

\* a get_response that has started keeps running: every step of it is a
\* local computation or a call that returns or raises
GetResponseStep ==
  CheckBudget \/ CallPaid \/ RecordAndReturn \/ CallLlama \/ Emergency

FairSpec == Spec /\ WF_vars(GetResponseStep)

(***************************************************************************)
(* Two concurrent callers of one BudgetManager, each running the sequence  *)
(* of VoiceManager._speak_elevenlabs (lines 196-219): can_afford, the      *)
(* synthesis, record_usage of the estimate.  BudgetManager.lock is taken   *)
(* and released inside can_afford and inside record_usage (lines 131 and   *)
(* 151), so each of the two is one atomic step and nothing is held between *)
(* them.                                                                   *)
(***************************************************************************)
\* len(text) of the texts spoken
TextLengths == {1000, 2000}

\* lines 197-203: estimate and budget check
ClientCheck(c, characters) ==
  /\ clients[c].pc = "idle"
  /\ LET est == calculate_cost("elevenlabs", "standard", 0, 0, characters)
         r == can_afford(budget_data, "elevenlabs", est, now)
     IN /\ budget_data' = r.bd
        /\ clients' = [clients EXCEPT ![c] =
              [pc |-> IF r.ok THEN "speaking" ELSE "denied",
               cost |-> est,
               seen |-> r.bd.usage["elevenlabs"]]]
  /\ ret' = NoCall
  /\ UNCHANGED <<today, budget_file, records, llm_vars>>
  /\ UNCHANGED mcp_vars
  /\ UNCHANGED voice_vars

\* lines 205-215: convert and play, either of which may raise
ClientSynthesize(c) ==
  /\ clients[c].pc = "speaking"
  /\ \E next \in {"commit", "failed"} :
        clients' = [clients EXCEPT ![c].pc = next]
  /\ ret' = NoCall
  /\ UNCHANGED <<today, budget_data, budget_file, records, llm_vars>>
  /\ UNCHANGED mcp_vars
  /\ UNCHANGED voice_vars

\* lines 217-223: record the estimate; a raise inside record_usage is caught
ClientCommit(c) ==
  /\ clients[c].pc = "commit"
  /\ budget_data' = record_usage(budget_data, "elevenlabs", clients[c].cost, now)
  /\ \E o \in SaveOutcomes(budget_data', budget_file) :
        /\ budget_file' = o.file
        /\ clients' = [clients EXCEPT ![c].pc = IF o.raised THEN "failed" ELSE "done"]
  /\ ret' = NoCall
  /\ UNCHANGED <<today, records, llm_vars>>
  /\ UNCHANGED mcp_vars
  /\ UNCHANGED voice_vars

InitConc == InitLedger

NextConc ==
  \/ \E c \in Clients, n \in TextLengths : ClientCheck(c, n)
  \/ \E c \in Clients : ClientSynthesize(c)
  \/ \E c \in Clients : ClientCommit(c)

SpecConc == InitConc /\ [][NextConc]_vars

(***************************************************************************)
(* LLMOrchestrator._compress_context (lines 82-122).  A message is a dict  *)
(* {"role": r, "content": text}; it is modelled by its role, len(text) and *)
(* an id that stands for the text itself.                                  *)
(***************************************************************************)
\* line 19
max_context_length == 4000

\* len(role)
RoleLen(role) ==
  CASE role = "system"    -> 6
    [] role = "user"      -> 4
    [] role = "assistant" -> 9

\* len(str(msg)) of a dict of two string items: "{'role': '" + role +
\* "', 'content': '" + content + "'}"
StrLen(msg) == 10 + RoleLen(msg.role) + 15 + msg.chars + 2

\* _estimate_tokens, lines 78-80, of a text of this many characters
_estimate_tokens(chars) == IF chars \div 4 >= 1 THEN chars \div 4 ELSE 1

\* _estimate_tokens(str(msg))
MsgTokens(msg) == _estimate_tokens(StrLen(msg))

\* sum(self._estimate_tokens(str(msg)) for msg in messages)
RECURSIVE SumTokens(_)
SumTokens(msgs) ==
  IF msgs = <<>> THEN 0 ELSE MsgTokens(Head(msgs)) + SumTokens(Tail(msgs))

\* lines 113-116: the note, whose content has 101 characters
summary_msg == [role |-> "system", chars |-> 101, id |-> 0]

\* list.insert(i, x): a negative index counts from the end, an index out of
\* range is clamped, and -0 is 0
ListInsert(list, i, x) ==
  LET n == Len(list)
      at == IF i < 0 THEN (IF n + i < 0 THEN 0 ELSE n + i)
            ELSE (IF i > n THEN n ELSE i)
  IN SubSeq(list, 1, at) \o <<x>> \o SubSeq(list, at + 1, n)

\* len([m for m in compressed if m.get("role") != "system"])
NonSystemCount(list) == Len(SelectSeq(list, LAMBDA m : m.role # "system"))

\* the loop of lines 103-109 from message j down to the first one
RECURSIVE KeepRecent(_, _, _, _)
KeepRecent(msgs, j, comp, remaining_tokens) ==
  IF j = 0 THEN comp
  ELSE LET msg_tokens == MsgTokens(msgs[j]) IN
       IF msg_tokens <= remaining_tokens
       THEN KeepRecent(msgs, j - 1,
                       ListInsert(comp, -NonSystemCount(comp), msgs[j]),
                       remaining_tokens - msg_tokens)
       ELSE comp

\* _compress_context, lines 82-122
_compress_context(msgs) ==
  IF msgs = <<>> THEN <<>>
  ELSE IF SumTokens(msgs) <= max_context_length THEN msgs
  ELSE
    LET has_system == msgs[1].role = "system"
        kept_system == IF has_system THEN <<msgs[1]>> ELSE <<>>
        \* line 98 rebinds messages to the rest
        rest == IF has_system THEN Tail(msgs) ELSE msgs
        remaining_tokens == max_context_length - SumTokens(kept_system)
        kept == KeepRecent(rest, Len(rest), kept_system, remaining_tokens)
        \* line 112, evaluated on the rebound list
        add_summary ==
          Len(kept) < Len(rest)
                        + (IF rest # <<>> /\ rest[1].role = "system" THEN 1 ELSE 0)
    IN IF ~add_summary THEN kept
       ELSE IF kept # <<>> /\ kept[1].role = "system"
            THEN ListInsert(kept, 1, summary_msg)
            ELSE ListInsert(kept, 0, summary_msg)

\* histories the function is applied to
MaxMessages == 4
\* len(content) of their messages: a short turn and one of about 2000 tokens
ContentChars == {40, 7969}

\* an optional leading system message followed by user and assistant turns,
\* each message with its own text
Histories ==
  UNION {
    { [i \in 1..n |-> [role |-> roles[i], chars |-> lens[i], id |-> i]] :
        roles \in { f \in [1..n -> {"system", "user", "assistant"}] :
                      \A i \in 2..n : f[i] # "system" },
        lens \in [1..n -> ContentChars] } : n \in 0..MaxMessages }

\* the function is about to be called on some history
InitCompress ==
  /\ LedgerAtRest
  /\ LLMAtRest
  /\ context_history = <<>>
  /\ messages = <<>>
  /\ compressed \in {[NotCompressed EXCEPT !.given = h] : h \in Histories}
  /\ MCPAtRest
  /\ VoiceAtRest

\* the call
Compress ==
  /\ ~compressed.done
  /\ compressed' = [compressed EXCEPT !.done = TRUE,
                                      !.out = _compress_context(compressed.given)]
  /\ ret' = NoCall
  /\ UNCHANGED <<today, budget_data, budget_file, records, clients>>
  /\ UNCHANGED <<llm_chain, pc, pos, request, trace, result, requests>>
  /\ UNCHANGED <<context_history, messages>>
  /\ UNCHANGED mcp_vars
  /\ UNCHANGED voice_vars

NextCompress == Compress

SpecCompress == InitCompress /\ [][NextCompress]_vars

(***************************************************************************)
(* The conversation context of LLMOrchestrator: get_response builds the    *)
(* message list (lines 283-296), some pair of the chain answers (the       *)
(* emergency responder when no other does) and the exchange is appended to *)
(* context_history (lines 320-326); clear_context (lines 368-372).  Both   *)
(* run under self.lock, so each is one step.                               *)
(***************************************************************************)
\* at most this many get_response calls on one conversation
MaxExchanges == 11

\* lines 325-326
TrimAbove == 20
TrimTo == 16

\* len(user_input), len(system_message) (0: none given) and len(response)
UserChars == {40, 7969}
SystemChars == {0, 40}
ReplyChars == {40}

\* a cut that keeps one entry less than line 326 does
Trim_OneShort(history) ==
  IF Len(history) > TrimAbove
  THEN SubSeq(history, Len(history) - (TrimTo - 1) + 1, Len(history))
  ELSE history

\* lines 325-326: context_history[-16:] once the length is above 20
Trim(history) ==
  IF Len(history) > TrimAbove
  THEN SubSeq(history, Len(history) - TrimTo + 1, Len(history))
  ELSE history

\* get_response, seen from the conversation
Exchange(user_chars, system_chars, reply_chars) ==
  /\ requests < MaxExchanges
  /\ requests' = requests + 1
  /\ LET n == requests + 1
         system_message == [role |-> "system", chars |-> system_chars, id |-> n]
         user_input == [role |-> "user", chars |-> user_chars, id |-> n]
         response == [role |-> "assistant", chars |-> reply_chars, id |-> n]
         compressed_context == _compress_context(context_history)
     IN /\ compressed' = [done |-> TRUE, given |-> context_history,
                          out |-> compressed_context]
        /\ messages' = (IF system_chars > 0 THEN <<system_message>> ELSE <<>>)
                          \o compressed_context \o <<user_input>>
        /\ context_history' = Trim(context_history \o <<user_input, response>>)
  /\ ret' = [NoCall EXCEPT !.op = "get_response"]
  /\ UNCHANGED <<today, budget_data, budget_file, records, clients>>
  /\ UNCHANGED <<llm_chain, pc, pos, request, trace, result>>
  /\ UNCHANGED mcp_vars
  /\ UNCHANGED voice_vars

\* clear_context
ClearContext ==
  /\ context_history' = <<>>
  /\ ret' = [NoCall EXCEPT !.op = "clear_context"]
  /\ UNCHANGED <<today, budget_data, budget_file, records, clients>>
  /\ UNCHANGED <<llm_chain, pc, pos, request, trace, result, requests>>
  /\ UNCHANGED <<compressed, messages>>
  /\ UNCHANGED mcp_vars
  /\ UNCHANGED voice_vars

InitContext == InitLedger

NextContext ==
  \/ \E u \in UserChars, sy \in SystemChars, r \in ReplyChars : Exchange(u, sy, r)
  \/ ClearContext

SpecContext == InitContext /\ [][NextContext]_vars

(***************************************************************************)
(* MCPRouter.route_request (lines 295-347), one request at a time: the     *)
(* health round and the lookup are one step, each call of an agent is one  *)
(* step.  Agents are registered between requests.                          *)
(***************************************************************************)
\* at most this many route_request calls per run
MaxRoutes == 2

\* the capabilities asked for: two with registered agents, one handled
\* locally that an agent declares too, one nobody declares
RoutedCapabilities == {"web_search", "code_analysis", "weather", "translate"}
\* the values of max_retries (line 296: 2 when not given)
RetryChoices == {2}
\* time a health check takes, and the times a capability call can take
HealthPingTime == 2
ResponseTimes == {1}

\* an agent registered after construction
ExtraAgents ==
  { [name |-> "helper_agent", priority |-> 1,
     capabilities |-> <<"web_search", "code_analysis">>] }

\* what a health round can find: every endpoint answering, or one of them
\* down or answering with an error status
HealthOutcomes(names) ==
  {[n \in names |-> TRUE]} \cup {[n \in names |-> n # down] : down \in names}

\* _perform_health_checks, lines 209-223; healthy[n] tells whether the
\* health call to agent n came back with status 200 (lines 157-172, 204)
_perform_health_checks(r, healthy) ==
  IF clock - r.last_health_check < health_check_interval THEN r
  ELSE [r EXCEPT
          !.agents = [n \in DOMAIN r.agents |->
                        [update_stats(r.agents[n], healthy[n], HealthPingTime)
                           EXCEPT !.is_healthy = healthy[n]]],
          !.last_health_check = clock]

\* register_agent called between two requests, for a name not yet registered
RegisterAgent(config) ==
  /\ route.pc = "idle"
  /\ config.name \notin DOMAIN router.agents
  /\ router' = register_agent(router, config.name, config.capabilities, config.priority)
  /\ UNCHANGED <<clock, route>>
  /\ UNCHANGED task_vars
  /\ UNCHANGED <<today, budget_data, budget_file, ret, records, clients, llm_vars>>
  /\ UNCHANGED <<calc, app, provider, voice_vars>>

\* a health check interval passes
TickInterval ==
  /\ route.pc = "idle"
  /\ route.count < MaxRoutes
  /\ clock - router.last_health_check < health_check_interval
  /\ clock' = clock + health_check_interval
  /\ UNCHANGED <<router, route>>
  /\ UNCHANGED task_vars
  /\ UNCHANGED <<today, budget_data, budget_file, ret, records, clients, llm_vars>>
  /\ UNCHANGED <<calc, app, provider, voice_vars>>

\* route_request up to the first call of an agent: lines 300-318
RouteRequest(capability, max_retries) ==
  /\ route.pc = "idle"
  /\ route.count < MaxRoutes
  /\ \E healthy \in HealthOutcomes(DOMAIN router.agents) :
        LET r == _perform_health_checks(router, healthy)
            agents == _get_agents_for_capability(r, capability)
            started == [NoRoute EXCEPT !.count = route.count + 1,
                                       !.capability = capability,
                                       !.max_retries = max_retries]
        IN /\ router' = r
           /\ route' =
                IF capability \in system_capabilities
                THEN [started EXCEPT !.result =
                        [kind |-> "local", success |-> capability # "weather",
                         agent |-> ""]]
                ELSE IF agents = <<>>
                THEN [started EXCEPT !.seen = r.agents,
                                     !.result = [kind |-> "no_agents",
                                                 success |-> FALSE, agent |-> ""]]
                ELSE [started EXCEPT !.pc = "attempting", !.agents = agents,
                                     !.seen = r.agents, !.attempt = 0, !.index = 1]
  /\ UNCHANGED clock
  /\ UNCHANGED task_vars
  /\ UNCHANGED <<today, budget_data, budget_file, ret, records, clients, llm_vars>>
  /\ UNCHANGED <<calc, app, provider, voice_vars>>

\* one pass of the inner loop, lines 322-340: _call_agent and what follows
\* an attempt loop that leaves the health flag alone
Attempt_NeverMarks(success, response_time) ==
  /\ route.pc = "attempting"
  /\ LET name == route.agents[route.index]
         called == update_stats(router.agents[name], success, response_time)
         log == Append(route.log, name)
         last_of_pass == route.index = Len(route.agents)
     IN IF success
        THEN /\ router' = [router EXCEPT !.agents[name] = called]
             /\ route' = [route EXCEPT !.pc = "idle", !.log = log,
                            !.result = [kind |-> "agent", success |-> TRUE, agent |-> name]]
        ELSE /\ router' = [router EXCEPT !.agents[name] = called]
             /\ route' =
                  IF last_of_pass /\ route.attempt = route.max_retries
                  THEN [route EXCEPT !.pc = "idle", !.log = log,
                          !.result = [kind |-> "all_failed", success |-> FALSE, agent |-> ""]]
                  ELSE [route EXCEPT !.log = log,
                          !.index = IF last_of_pass THEN 1 ELSE route.index + 1,
                          !.attempt = IF last_of_pass THEN route.attempt + 1 ELSE route.attempt]
  /\ UNCHANGED clock
  /\ UNCHANGED task_vars
  /\ UNCHANGED <<today, budget_data, budget_file, ret, records, clients, llm_vars>>
  /\ UNCHANGED <<calc, app, provider, voice_vars>>

\* an attempt loop that makes one pass fewer than max_retries + 1
Attempt_OnePassShort(success, response_time) ==
  /\ route.pc = "attempting"
  /\ LET name == route.agents[route.index]
         called == update_stats(router.agents[name], success, response_time)
         log == Append(route.log, name)
         last_of_pass == route.index = Len(route.agents)
     IN IF success
        THEN /\ router' = [router EXCEPT !.agents[name] = called]
             /\ route' = [route EXCEPT !.pc = "idle", !.log = log,
                            !.result = [kind |-> "agent", success |-> TRUE, agent |-> name]]
        ELSE /\ router' = [router EXCEPT !.agents[name] =
                             IF QLess(called.success_rate, [num |-> 1, den |-> 2])
                             THEN [called EXCEPT !.is_healthy = FALSE]
                             ELSE called]
             /\ route' =
                  IF last_of_pass /\ route.attempt = route.max_retries - 1
                  THEN [route EXCEPT !.pc = "idle", !.log = log,
                          !.result = [kind |-> "all_failed", success |-> FALSE, agent |-> ""]]
                  ELSE [route EXCEPT !.log = log,
                          !.index = IF last_of_pass THEN 1 ELSE route.index + 1,
                          !.attempt = IF last_of_pass THEN route.attempt + 1 ELSE route.attempt]
  /\ UNCHANGED clock
  /\ UNCHANGED task_vars
  /\ UNCHANGED <<today, budget_data, budget_file, ret, records, clients, llm_vars>>
  /\ UNCHANGED <<calc, app, provider, voice_vars>>

Attempt(success, response_time) ==
  /\ route.pc = "attempting"
  /\ LET name == route.agents[route.index]
         called == update_stats(router.agents[name], success, response_time)
         log == Append(route.log, name)
         last_of_pass == route.index = Len(route.agents)
     IN IF success
        THEN /\ router' = [router EXCEPT !.agents[name] = called]
             /\ route' = [route EXCEPT !.pc = "idle", !.log = log,
                            !.result = [kind |-> "agent", success |-> TRUE,
                                        agent |-> name]]
        ELSE /\ router' = [router EXCEPT !.agents[name] =
                             IF QLess(called.success_rate, [num |-> 1, den |-> 2])
                             THEN [called EXCEPT !.is_healthy = FALSE]
                             ELSE called]
             /\ route' =
                  IF last_of_pass /\ route.attempt = route.max_retries
                  THEN [route EXCEPT !.pc = "idle", !.log = log,
                          !.result = [kind |-> "all_failed", success |-> FALSE,
                                      agent |-> ""]]
                  ELSE [route EXCEPT !.log = log,
                          !.index = IF last_of_pass THEN 1 ELSE route.index + 1,
                          !.attempt = IF last_of_pass THEN route.attempt + 1
                                      ELSE route.attempt]
  /\ UNCHANGED clock
  /\ UNCHANGED task_vars
  /\ UNCHANGED <<today, budget_data, budget_file, ret, records, clients, llm_vars>>
  /\ UNCHANGED <<calc, app, provider, voice_vars>>

InitRouter == InitLedger

NextRouter ==
  \/ \E config \in ExtraAgents : RegisterAgent(config)
  \/ TickInterval
  \/ \E capability \in RoutedCapabilities, max_retries \in RetryChoices :
        RouteRequest(capability, max_retries)
  \/ \E success \in BOOLEAN, response_time \in ResponseTimes :
        Attempt(success, response_time)

SpecRouter == InitRouter /\ [][NextRouter]_vars

\* one _call_agent of the attempt loop, which returns within the timeout of
\* lines 142-143 whether it succeeds or not
AttemptStep == \E success \in BOOLEAN, response_time \in ResponseTimes :
                  Attempt(success, response_time)

(***************************************************************************)
(* Concurrent route_request calls, one per thread through                  *)
(* route_request_sync (each thread runs its own event loop) or as tasks of *)
(* one loop: _perform_health_checks tests the interval (line 211), awaits  *)
(* the gathered health checks (line 219) and only then stamps              *)
(* last_health_check (line 221). The steps below are the stretches between *)
(* two suspension points.                                                  *)
(***************************************************************************)
MaxChecks == 1
MaxClock == 62

\* lines 199-202 for every agent, and line 221
health_round(r, healthy) ==
  [r EXCEPT
     !.agents = [n \in DOMAIN r.agents |->
                   [update_stats(r.agents[n], healthy[n], HealthPingTime)
                      EXCEPT !.is_healthy = healthy[n]]],
     !.last_health_check = clock]

\* lines 211-219: the interval test; when it passes, the round starts
HealthTest(c) ==
  /\ tasks[c].pc = "idle"
  /\ tasks[c].calls < MaxChecks
  /\ IF clock - router.last_health_check < health_check_interval
     THEN /\ tasks' = [tasks EXCEPT ![c].calls = @ + 1]
          /\ UNCHANGED rounds
     ELSE /\ tasks' = [tasks EXCEPT ![c].calls = @ + 1, ![c].pc = "checking"]
          /\ rounds' = Append(rounds, clock)
  /\ UNCHANGED <<router, clock, route, completed>>
  /\ UNCHANGED <<today, budget_data, budget_file, ret, records, clients, llm_vars>>
  /\ UNCHANGED <<calc, app, provider, voice_vars>>

\* lines 219-221: the gather returns and the round is stamped
HealthGathered(c, healthy) ==
  /\ tasks[c].pc = "checking"
  /\ router' = health_round(router, healthy)
  /\ tasks' = [tasks EXCEPT ![c].pc = "idle"]
  /\ UNCHANGED <<clock, route, rounds, completed>>
  /\ UNCHANGED <<today, budget_data, budget_file, ret, records, clients, llm_vars>>
  /\ UNCHANGED <<calc, app, provider, voice_vars>>

\* time passes: the duration of a health check, or a whole interval
Elapse(seconds) ==
  /\ clock + seconds <= MaxClock
  /\ clock' = clock + seconds
  /\ UNCHANGED <<router, route, task_vars>>
  /\ UNCHANGED <<today, budget_data, budget_file, ret, records, clients, llm_vars>>
  /\ UNCHANGED <<calc, app, provider, voice_vars>>

InitHealth == InitLedger
NextHealth ==
  \/ \E c \in Callers : HealthTest(c)
  \/ \E c \in Callers, healthy \in HealthOutcomes(DOMAIN router.agents) :
        HealthGathered(c, healthy)
  \/ \E seconds \in {HealthPingTime, health_check_interval} : Elapse(seconds)
SpecHealth == InitHealth /\ [][NextHealth]_vars

(***************************************************************************)
(* Concurrent _call_agent calls to one agent from the threads of           *)
(* route_request_sync. MCPAgent.update_stats (lines 26-36) takes no lock,  *)
(* and MCPRouter.lock is not held around it; its statements read the field *)
(* they update and write it back, and another thread can run in between.   *)
(***************************************************************************)
MaxUpdates == 2
StatsAgent == "search_agent"

\* line 28, the read of `self.total_requests += 1`
LoadTotal(c, success, response_time) ==
  /\ tasks[c].pc = "idle"
  /\ tasks[c].calls < MaxUpdates
  /\ tasks' = [tasks EXCEPT ![c] =
                 [pc |-> "store_total", calls |-> tasks[c].calls + 1,
                  success |-> success, response_time |-> response_time,
                  load |-> router.agents[StatsAgent].total_requests]]
  /\ UNCHANGED <<router, clock, route, rounds, completed>>
  /\ UNCHANGED <<today, budget_data, budget_file, ret, records, clients, llm_vars>>
  /\ UNCHANGED <<calc, app, provider, voice_vars>>

\* line 28, the write; line 29
StoreTotal(c) ==
  /\ tasks[c].pc = "store_total"
  /\ router' = [router EXCEPT !.agents[StatsAgent].total_requests = tasks[c].load + 1]
  /\ tasks' = [tasks EXCEPT ![c].pc = IF tasks[c].success THEN "load_successful"
                                                          ELSE "times"]
  /\ UNCHANGED <<clock, route, rounds, completed>>
  /\ UNCHANGED <<today, budget_data, budget_file, ret, records, clients, llm_vars>>
  /\ UNCHANGED <<calc, app, provider, voice_vars>>

\* line 30, the read of `self.successful_requests += 1`
LoadSuccessful(c) ==
  /\ tasks[c].pc = "load_successful"
  /\ tasks' = [tasks EXCEPT ![c].pc = "store_successful",
                            ![c].load = router.agents[StatsAgent].successful_requests]
  /\ UNCHANGED <<router, clock, route, rounds, completed>>
  /\ UNCHANGED <<today, budget_data, budget_file, ret, records, clients, llm_vars>>
  /\ UNCHANGED <<calc, app, provider, voice_vars>>

\* line 30, the write
StoreSuccessful(c) ==
  /\ tasks[c].pc = "store_successful"
  /\ router' = [router EXCEPT
                  !.agents[StatsAgent].successful_requests = tasks[c].load + 1]
  /\ tasks' = [tasks EXCEPT ![c].pc = "times"]
  /\ UNCHANGED <<clock, route, rounds, completed>>
  /\ UNCHANGED <<today, budget_data, budget_file, ret, records, clients, llm_vars>>
  /\ UNCHANGED <<calc, app, provider, voice_vars>>

\* lines 32-34
RecordTime(c) ==
  /\ tasks[c].pc = "times"
  /\ LET times == Append(router.agents[StatsAgent].response_times,
                         tasks[c].response_time)
     IN router' = [router EXCEPT !.agents[StatsAgent].response_times =
                     IF Len(times) > KeptResponseTimes THEN Tail(times) ELSE times]
  /\ tasks' = [tasks EXCEPT ![c].pc = "rate"]
  /\ UNCHANGED <<clock, route, rounds, completed>>
  /\ UNCHANGED <<today, budget_data, budget_file, ret, records, clients, llm_vars>>
  /\ UNCHANGED <<calc, app, provider, voice_vars>>

\* line 36, and the return of _call_agent
ComputeRate(c) ==
  /\ tasks[c].pc = "rate"
  /\ router' = [router EXCEPT !.agents[StatsAgent].success_rate =
                  [num |-> router.agents[StatsAgent].successful_requests,
                   den |-> router.agents[StatsAgent].total_requests]]
  /\ tasks' = [tasks EXCEPT ![c].pc = "idle"]
  /\ completed' = [times |-> Append(completed.times, tasks[c].response_time),
                   successes |-> completed.successes
                                   + (IF tasks[c].success THEN 1 ELSE 0)]
  /\ UNCHANGED <<clock, route, rounds>>
  /\ UNCHANGED <<today, budget_data, budget_file, ret, records, clients, llm_vars>>
  /\ UNCHANGED <<calc, app, provider, voice_vars>>

InitStats == InitLedger
NextStats ==
  \/ \E c \in Callers, success \in BOOLEAN, response_time \in ResponseTimes :
        LoadTotal(c, success, response_time)
  \/ \E c \in Callers : StoreTotal(c)
  \/ \E c \in Callers : LoadSuccessful(c)
  \/ \E c \in Callers : StoreSuccessful(c)
  \/ \E c \in Callers : RecordTime(c)
  \/ \E c \in Callers : ComputeRate(c)
SpecStats == InitStats /\ [][NextStats]_vars

(***************************************************************************)
(* Sequential calls to one agent: every _call_agent ends in one            *)
(* update_stats (lines 161, 169, 177).                                     *)
(***************************************************************************)
MaxCalls == 11
CallTimes == {1, 2}

CallReturns(success, response_time) ==
  /\ Len(completed.times) < MaxCalls
  /\ router' = [router EXCEPT !.agents[StatsAgent] =
                  update_stats(router.agents[StatsAgent], success, response_time)]
  /\ completed' = [times |-> Append(completed.times, response_time),
                   successes |-> completed.successes + (IF success THEN 1 ELSE 0)]
  /\ UNCHANGED <<clock, route, tasks, rounds>>
  /\ UNCHANGED <<today, budget_data, budget_file, ret, records, clients, llm_vars>>
  /\ UNCHANGED <<calc, app, provider, voice_vars>>

InitAgent == InitLedger
NextAgent ==
  \E success \in BOOLEAN, response_time \in CallTimes :
     CallReturns(success, response_time)
SpecAgent == InitAgent /\ [][NextAgent]_vars

(***************************************************************************)
(* The registry: register_agent (also for a name that is registered) and   *)
(* unregister_agent, in any order.                                         *)
(***************************************************************************)
\* del d[k]
DictDel(d, k) == [x \in (DOMAIN d) \ {k} |-> d[x]]

\* lines 125-130: the capability map after the agent's own capabilities
\* were walked
RECURSIVE UnmapCapabilities(_, _, _)
UnmapCapabilities(capability_map, name, capabilities) ==
  IF capabilities = <<>> THEN capability_map
  ELSE LET capability == Head(capabilities)
           rest == Tail(capabilities)
       IN IF capability \notin DOMAIN capability_map
          THEN UnmapCapabilities(capability_map, name, rest)
          ELSE LET names == SelectSeq(capability_map[capability],
                                      LAMBDA n : n # name)
               IN UnmapCapabilities(
                    IF names = <<>> THEN DictDel(capability_map, capability)
                    ELSE DictSet(capability_map, capability, names),
                    name, rest)

\* unregister_agent, lines 119-134
unregister_agent(r, name) ==
  IF name \in DOMAIN r.agents
  THEN [r EXCEPT !.agents = DictDel(r.agents, name),
                 !.capability_map =
                    UnmapCapabilities(r.capability_map, name,
                                      r.agents[name].capabilities)]
  ELSE r

\* get_capabilities, lines 360-364, as a set
get_capabilities(r) == system_capabilities \cup DOMAIN r.capability_map

\* the configurations agents are registered with: helper_agent under two
\* different capability lists
RegistryConfigs ==
  ExtraAgents \cup
  { [name |-> "helper_agent", priority |-> 1, capabilities |-> <<"translate">>],
    [name |-> "search_agent", priority |-> 2,
     capabilities |-> <<"web_search", "research", "information">>],
    [name |-> "code_agent", priority |-> 1,
     capabilities |-> <<"debug", "translate">>],
    [name |-> "weather_agent", priority |-> 3, capabilities |-> <<"weather">>] }

Register(config) ==
  /\ router' = register_agent(router, config.name, config.capabilities,
                              config.priority)
  /\ UNCHANGED <<clock, route, task_vars, calc, app, provider, voice_vars>>
  /\ UNCHANGED <<today, budget_data, budget_file, ret, records, clients, llm_vars>>

Unregister(name) ==
  /\ router' = unregister_agent(router, name)
  /\ UNCHANGED <<clock, route, task_vars, calc, app, provider, voice_vars>>
  /\ UNCHANGED <<today, budget_data, budget_file, ret, records, clients, llm_vars>>

InitRegistry == InitLedger
NextRegistry ==
  \/ \E config \in RegistryConfigs : Register(config)
  \/ \E name \in {config.name : config \in RegistryConfigs} : Unregister(name)
SpecRegistry == InitRegistry /\ [][NextRegistry]_vars

(***************************************************************************)
(* AdvancedJarvis (app.py): one iteration of the main loop, from the       *)
(* command that is not a system command to what is shown to the user.      *)
(***************************************************************************)
MaxCommands == 2

\* mcp_keywords, lines 103-108, in the order the dict is walked
mcp_keywords ==
  << [keyword |-> "weather",   capability |-> "weather"],
     [keyword |-> "calculate", capability |-> "calculator"],
     [keyword |-> "time",      capability |-> "time"],
     [keyword |-> "system",    capability |-> "system_info"] >>

\* a command, as the set of keywords it contains
Commands == SUBSET {mcp_keywords[i].keyword : i \in 1..Len(mcp_keywords)}

\* the local handlers of mcp_router.py, lines 230-294, called with
\* {"query": command} (app.py line 114); data is the set of keys of "data"
LocalHandler(capability, psutil) ==
  IF capability = "time"
  THEN [raised |-> FALSE, success |-> TRUE, data |-> {"time", "date", "timezone"}]
  ELSE IF capability = "system_info" /\ psutil
  THEN [raised |-> FALSE, success |-> TRUE,
        data |-> {"system", "platform", "processor", "python_version",
                  "cpu_percent", "memory_percent", "disk_usage"}]
  ELSE IF capability = "system_info"
  THEN [raised |-> TRUE, success |-> FALSE, data |-> {}]
  ELSE [raised |-> FALSE, success |-> FALSE, data |-> {}]

\* the loop of lines 110-123 from keyword i on: the router after the
\* route_request calls made, and the first capability that was routed with
\* success ("" when none was)
RECURSIVE RouteKeywords(_, _, _, _, _)
RouteKeywords(r, command, i, healthy, psutil) ==
  IF i > Len(mcp_keywords)
  THEN [router |-> r, capability |-> "", data |-> {}]
  ELSE IF mcp_keywords[i].keyword \notin command
  THEN RouteKeywords(r, command, i + 1, healthy, psutil)
  ELSE LET checked == _perform_health_checks(r, healthy)
           mcp_result == LocalHandler(mcp_keywords[i].capability, psutil)
       IN IF ~mcp_result.raised /\ mcp_result.success
          THEN [router |-> checked, capability |-> mcp_keywords[i].capability,
                data |-> mcp_result.data]
          ELSE RouteKeywords(checked, command, i + 1, healthy, psutil)

\* the dict of lines 116-121: it has no "success" key
RoutedResult(data) ==
  [response |-> [isdict |-> TRUE, keys |-> data], source |-> "mcp_system",
   cost |-> 0]

\* what llm_orchestrator.get_response returns (llm_orchestrator.py, lines
\* 328-335 and 343-351), for a command of 100 tokens answered in 1000
LLMResults ==
  { [response |-> [isdict |-> FALSE, keys |-> {}],
     source |-> Pairs[p].name, model |-> Pairs[p].model,
     cost |-> calculate_cost(Pairs[p].name, Pairs[p].model, 100, 1000, 0),
     success |-> TRUE] : p \in 1..Len(Pairs) }
  \cup
  { [response |-> [isdict |-> FALSE, keys |-> {}],
     source |-> "emergency_fallback", model |-> "hardcoded", cost |-> 0,
     success |-> FALSE] }

\* _process_command_advanced, lines 98-135; the call of get_response is
\* summed up by the dict it returns and the usage it records
ProcessCommand(command, healthy, psutil) ==
  /\ app.pc = "idle"
  /\ app.count < MaxCommands
  /\ LET routing == RouteKeywords(router, command, 1, healthy, psutil)
         started == [NoApp EXCEPT !.pc = "returned", !.count = app.count + 1,
                                  !.command = command]
     IN /\ router' = routing.router
        /\ IF routing.capability # ""
           THEN /\ app' = [started EXCEPT !.routed = routing.capability,
                                          !.result = RoutedResult(routing.data)]
                /\ UNCHANGED <<budget_data, budget_file>>
           ELSE \E llm_result \in LLMResults :
                  LET paid == llm_result.success /\ llm_result.source \in PaidNames
                  IN /\ app' = [started EXCEPT !.llm_invoked = TRUE,
                                               !.spent = paid,
                                               !.result = llm_result]
                     /\ IF paid
                        THEN /\ budget_data' =
                                  record_usage(budget_data, llm_result.source,
                                               llm_result.cost, now)
                             /\ budget_file' = [state |-> "written",
                                                doc |-> budget_data']
                        ELSE UNCHANGED <<budget_data, budget_file>>
  /\ UNCHANGED <<clock, route, task_vars, calc, provider, voice_vars>>
  /\ UNCHANGED <<today, ret, records, clients, llm_vars>>

\* what run shows for the dict _process_command_advanced returned, lines
\* 306-330; result["success"] on a dict without that key raises KeyError,
\* which the except of lines 340-346 answers with the emergency protocol
Shown(res) ==
  IF "success" \notin DOMAIN res THEN "emergency_protocol"
  ELSE IF ~res.success THEN "error_response"
  ELSE IF ~res.response.isdict THEN "response"
  ELSE IF "time" \in res.response.keys THEN "time_sentence"
  ELSE IF "result" \in res.response.keys THEN "result_sentence"
  ELSE "str_of_data"

\* run, lines 304-346, after _process_command_advanced returned
Present ==
  /\ app.pc = "returned"
  /\ app' = [app EXCEPT !.pc = "idle", !.shown = Shown(app.result)]
  /\ UNCHANGED <<router, clock, route, task_vars, calc, provider, voice_vars>>
  /\ UNCHANGED <<today, budget_data, budget_file, ret, records, clients, llm_vars>>

InitApp == InitLedger
NextApp ==
  \/ \E command \in Commands, psutil \in BOOLEAN :
        \E healthy \in HealthOutcomes(DOMAIN router.agents) :
           ProcessCommand(command, healthy, psutil)
  \/ Present
SpecApp == InitApp /\ [][NextApp]_vars

(***************************************************************************)
(* The provider classes of llm_providers/ and voice_providers/.  A         *)
(* constructor runs the base __init__, which ends by calling _initialize   *)
(* (base_provider.py line 52, base_voice_provider.py line 53), and only    *)
(* then the body of the subclass __init__; "configured" tells whether that *)
(* body has run, that is whether the attributes it assigns exist.          *)
(***************************************************************************)
MaxProviderCalls == 2
MaxStyleOps == 2

max_text_length == 5000
TextOnlyMaxTextLength == 50000

LLMClasses == {"openai", "claude", "ollama", "emergency"}
VoiceClasses == {"elevenlabs", "text_only"}
Environments == [key : BOOLEAN, package : BOOLEAN, backend : BOOLEAN]

\* a response with success = False, and one with success = True
Failed(content) ==
  [kind |-> "returned", success |-> FALSE, content |-> content, cost |-> 0,
   asked |-> "None"]
Succeeded(content, cost) ==
  [kind |-> "returned", success |-> TRUE, content |-> content, cost |-> cost,
   asked |-> "None"]

\* the keys of model_configs (and of model_aliases for claude)
ModelConfigs(class) ==
  IF class = "openai"
  THEN {"gpt-4.1", "gpt-4o", "gpt-4o-mini", "gpt-4-turbo", "gpt-4", "gpt-3.5-turbo"}
  ELSE IF class = "claude"
  THEN {"claude-3-opus-20240229", "claude-3-sonnet-20240229",
        "claude-3-haiku-20240307", "claude-3-5-sonnet-20241022",
        "claude-3-opus", "claude-3-sonnet", "claude-3-haiku", "claude-3.5-sonnet"}
  ELSE IF class = "ollama" THEN {"llama2"}
  ELSE {"emergency_v1"}

\* default_model / default_voice as the subclass body assigns it
SubclassDefault(class) ==
  IF class = "openai" THEN "gpt-4o-mini"
  ELSE IF class = "claude" THEN "claude-3-haiku-20240307"
  ELSE IF class = "ollama" THEN "llama2"
  ELSE IF class = "emergency" THEN "emergency_v1"
  ELSE IF class = "elevenlabs" THEN "Rachel"
  ELSE "speech"

\* get_available_models of the four LLM providers
get_available_models(p) ==
  IF p.class = "emergency" THEN {"emergency_v1"}
  ELSE IF p.is_available THEN ModelConfigs(p.class)
  ELSE {}

\* intent_keywords in dict order (emergency_provider.py, lines 85-93); a
\* text is the set of intents of which it contains a keyword
intent_keywords ==
  <<"time", "weather", "help", "greeting", "thanks", "goodbye", "status">>

\* _detect_intent, lines 105-114
_detect_intent(text) ==
  LET hits == {i \in 1..Len(intent_keywords) : intent_keywords[i] \in text}
  IN IF hits = {} THEN "unknown"
     ELSE intent_keywords[CHOOSE i \in hits : \A j \in hits : i <= j]

\* lines 136-140: the content of the last message with role "user"
RECURSIVE LastUserMessage(_)
LastUserMessage(msgs) ==
  IF msgs = <<>> THEN {}
  ELSE IF msgs[Len(msgs)].role = "user" THEN msgs[Len(msgs)].content
  ELSE LastUserMessage(SubSeq(msgs, 1, Len(msgs) - 1))

\* an emergency provider that answers with an empty string
_get_response_Empty(p, msgs, model, backend) ==
  IF p.class = "emergency"
  THEN Succeeded("", 0)
  ELSE IF p.configured /\ backend /\ (p.client \/ p.class = "ollama")
  THEN Succeeded("completion", 1)
  ELSE Failed("")

\* _get_response: every one catches its own exceptions.  The emergency
\* provider answers with one of the templates of the intent, all of them
\* non-empty strings (the intent stands for the formatted template); an
\* attribute of the subclass body that does not exist yet is an exception
_get_response(p, msgs, model, backend) ==
  IF p.class = "emergency"
  THEN IF p.configured
       THEN Succeeded(_detect_intent(LastUserMessage(msgs)), 0)
       ELSE Failed("critical system errors")
  ELSE IF p.configured /\ backend /\ (p.client \/ p.class = "ollama")
  THEN Succeeded("completion", 1)
  ELSE Failed("")

\* generate_response, base_provider.py lines 87-145: the provider after the
\* call and the response
generate_response(p, msgs, model, backend) ==
  LET m == IF model = "None" THEN p.default_model ELSE model
  IN IF m \notin get_available_models(p)
     THEN [p |-> p, response |-> [Failed("") EXCEPT !.asked = model]]
     ELSE LET response == _get_response(p, msgs, m, backend)
              counted == [p EXCEPT !.total_requests = @ + 1]
          IN [p |-> IF response.success
                    THEN [counted EXCEPT !.successful_requests = @ + 1]
                    ELSE counted,
              response |-> [response EXCEPT !.asked = model]]

\* the keys of voice_configs (elevenlabs_provider.py, lines 28-39)
voice_configs ==
  {"Rachel", "Domi", "Bella", "Antoni", "Elli", "Josh", "Arnold", "Adam", "Sam"}

\* output_styles as the body of TextOnlyProvider.__init__ assigns it, lines
\* 18-27: TRUE for a template that formats one argument
output_styles ==
  [n \in {"simple", "speech", "quote", "announcement", "whisper", "emphasis",
          "info", "robot"} |-> TRUE]

\* _synthesize_speech of the two voice providers; both catch their own
\* exceptions
_synthesize_speech(p, style, backend) ==
  IF p.class = "text_only"
  THEN IF ~p.configured THEN Failed("")
       ELSE IF DictGet(p.output_styles, style, p.output_styles["simple"])
       THEN Succeeded("printed", 0)
       ELSE Failed("")
  ELSE IF p.configured /\ p.client /\ backend
  THEN Succeeded("played", 1)
  ELSE Failed("")

\* speak, base_voice_provider.py lines 88-161; get_available_voices (line
\* 123) is called outside the try
speak(p, text, style, backend) ==
  IF text.blank THEN [p |-> p, response |-> Failed("")]
  ELSE IF text.length > p.max_text_length THEN [p |-> p, response |-> Failed("")]
  ELSE LET v == IF style = "None" THEN p.default_voice ELSE style
       IN IF p.class = "text_only" /\ ~p.configured
          THEN [p |-> p, response |-> [NoResponse EXCEPT !.kind = "raised"]]
          ELSE LET available_voices ==
                     IF p.class = "text_only" THEN DOMAIN p.output_styles
                     ELSE IF p.is_available THEN voice_configs ELSE {}
               IN IF available_voices # {} /\ v \notin available_voices
                  THEN [p |-> p, response |-> [Failed("") EXCEPT !.asked = style]]
                  ELSE LET response == _synthesize_speech(p, v, backend)
                           counted == [p EXCEPT !.total_requests = @ + 1]
                       IN [p |-> IF response.success
                                 THEN [counted EXCEPT !.successful_requests = @ + 1]
                                 ELSE counted,
                           response |-> [response EXCEPT !.asked = style]]

\* BaseLLMProvider.__init__ and BaseVoiceProvider.__init__ up to the call
\* of _initialize
BaseProvider(class, env) ==
  [NoProvider EXCEPT !.class = class, !.pc = "constructing", !.env = env,
                     !.max_text_length =
                        IF class \in VoiceClasses THEN max_text_length ELSE 0]

\* the body of the subclass __init__ after super().__init__ returned
SubclassBody(p) ==
  [p EXCEPT !.pc = "built", !.configured = TRUE,
            !.api_key = FALSE, !.client = FALSE,
            !.default_model =
               IF p.class \in LLMClasses THEN SubclassDefault(p.class) ELSE "None",
            !.default_voice =
               IF p.class \in VoiceClasses THEN SubclassDefault(p.class) ELSE "None",
            !.output_styles =
               IF p.class = "text_only" THEN output_styles ELSE EmptyDict,
            !.max_text_length =
               IF p.class = "text_only" THEN TextOnlyMaxTextLength
               ELSE p.max_text_length,
            !.is_available = p.is_available \/ p.class = "emergency"]

\* _initialize of each class, on the object the base __init__ made
_initialize(p) ==
  LET keyed == [p EXCEPT !.api_key = p.env.key]
      client == [keyed EXCEPT !.client = TRUE]
      hello == <<[role |-> "user", content |-> {"greeting"}]>>
  IN IF p.class \in {"openai", "claude", "elevenlabs"}
     THEN IF ~p.env.key \/ ~p.env.package THEN keyed
          ELSE LET test ==
                     IF p.class = "openai"
                     THEN generate_response(client, hello, "None", p.env.backend)
                     ELSE IF p.class = "claude"
                     THEN [p |-> client,
                           response |-> _get_response(client, hello,
                                                      client.default_model,
                                                      p.env.backend)]
                     ELSE speak(client, [length |-> 4, blank |-> FALSE],
                                "Rachel", p.env.backend)
               IN IF test.response.success
                  THEN [test.p EXCEPT !.is_available = TRUE]
                  ELSE test.p
     ELSE IF p.class = "ollama"
     THEN IF p.configured /\ p.env.backend
          THEN [p EXCEPT !.is_available = TRUE]
          ELSE p
     ELSE IF p.class = "text_only"
     THEN IF p.configured
          THEN [p EXCEPT !.is_available = TRUE]
          ELSE [p EXCEPT !.is_available = TRUE, !.pc = "raised"]
     ELSE p

\* the constructor: the object it leaves, or pc = "raised" when it raised
NewProvider(class, env) ==
  LET initialized == _initialize(BaseProvider(class, env))
  IN IF initialized.pc = "raised" THEN initialized
     ELSE SubclassBody(initialized)

\* add_style, remove_style and set_default_style, text_only_provider.py
\* lines 125-136 and 151-154
add_style(p, name, template) ==
  [p EXCEPT !.output_styles = DictSet(@, name, template)]

remove_style(p, name) ==
  IF name \in DOMAIN p.output_styles /\ name # "simple"
  THEN [p EXCEPT !.output_styles = DictDel(@, name)]
  ELSE p

set_default_style(p, style) ==
  IF style \in DOMAIN p.output_styles
  THEN [p EXCEPT !.default_voice = style]
  ELSE p

\* the calls a user of TextOnlyProvider makes before speaking
StyleNames == {"simple", "speech", "custom"}
StyleOps ==
  {[op |-> "add_style", name |-> n, template |-> t] :
      n \in StyleNames, t \in BOOLEAN}
  \cup {[op |-> o, name |-> n, template |-> TRUE] :
           o \in {"remove_style", "set_default_style"}, n \in StyleNames}

StyleOpSeqs ==
  UNION {[1..n -> StyleOps] : n \in 0..MaxStyleOps}

RECURSIVE ApplyStyleOps(_, _)
ApplyStyleOps(p, ops) ==
  IF ops = <<>> THEN p
  ELSE LET o == Head(ops)
           q == IF o.op = "add_style" THEN add_style(p, o.name, o.template)
                ELSE IF o.op = "remove_style" THEN remove_style(p, o.name)
                ELSE set_default_style(p, o.name)
       IN ApplyStyleOps(q, Tail(ops))

\* texts passed to speak
ProviderTexts ==
  { [length |-> 0, blank |-> TRUE], [length |-> 3, blank |-> TRUE],
    [length |-> 4, blank |-> FALSE], [length |-> max_text_length + 1, blank |-> FALSE] }

\* message lists passed to generate_response
MessageLists ==
  { <<>>,
    <<[role |-> "user", content |-> {}]>>,
    <<[role |-> "system", content |-> {"help"}],
      [role |-> "user", content |-> {"status", "weather"}]>>,
    <<[role |-> "user", content |-> {"time"}],
      [role |-> "assistant", content |-> {"goodbye"}]>> }

\* model names passed to generate_response
ModelNames == {"None", "emergency_v1", "gpt-4", "gpt-4o-mini", "llama2"}

Construct(class, env) ==
  /\ provider' = NewProvider(class, env)
  /\ UNCHANGED <<router, clock, route, task_vars, calc, app, voice_vars>>
  /\ UNCHANGED <<today, budget_data, budget_file, ret, records, clients, llm_vars>>

GenerateResponse(msgs, model, backend) ==
  /\ provider.pc = "built"
  /\ provider.class \in LLMClasses
  /\ provider.total_requests < MaxProviderCalls
  /\ LET call == generate_response(provider, msgs, model, backend)
     IN provider' = [call.p EXCEPT !.response = call.response]
  /\ UNCHANGED <<router, clock, route, task_vars, calc, app, voice_vars>>
  /\ UNCHANGED <<today, budget_data, budget_file, ret, records, clients, llm_vars>>

ProviderSpeak(text, style, backend) ==
  /\ provider.pc = "built"
  /\ provider.class \in VoiceClasses
  /\ provider.total_requests < MaxProviderCalls
  /\ LET call == speak(provider, text, style, backend)
     IN provider' = [call.p EXCEPT !.response = call.response]
  /\ UNCHANGED <<router, clock, route, task_vars, calc, app, voice_vars>>
  /\ UNCHANGED <<today, budget_data, budget_file, ret, records, clients, llm_vars>>

\* a user of TextOnlyProvider: TextOnlyProvider(), then the style calls,
\* then speak(text) with no voice; when the constructor raises, nothing
\* after it runs
StyleSession(ops, text) ==
  /\ LET built == NewProvider("text_only", NoEnv)
     IN IF built.pc = "raised"
        THEN provider' = [built EXCEPT !.session = TRUE]
        ELSE LET call == speak(ApplyStyleOps(built, ops), text, "None", FALSE)
             IN provider' = [call.p EXCEPT !.session = TRUE,
                                           !.response = call.response]
  /\ UNCHANGED <<router, clock, route, task_vars, calc, app, voice_vars>>
  /\ UNCHANGED <<today, budget_data, budget_file, ret, records, clients, llm_vars>>

InitProviders == InitLedger
NextProviders ==
  \/ \E class \in LLMClasses \cup VoiceClasses, env \in Environments :
        Construct(class, env)
  \/ \E msgs \in MessageLists, model \in ModelNames, backend \in BOOLEAN :
        GenerateResponse(msgs, model, backend)
  \/ \E text \in ProviderTexts, style \in {"None", "Rachel", "siri"},
        backend \in BOOLEAN :
        ProviderSpeak(text, style, backend)
  \/ \E ops \in StyleOpSeqs :
        StyleSession(ops, [length |-> 4, blank |-> FALSE])
SpecProviders == InitProviders /\ [][NextProviders]_vars

(***************************************************************************)
(* _handle_calculator_request (lines 258-274).  An expression is the       *)
(* sequence of its characters.                                             *)
(***************************************************************************)
MaxExprLen == 3

\* line 266
allowed_chars ==
  {"0", "1", "2", "3", "4", "5", "6", "7", "8", "9",
   "+", "-", "*", "/", ".", "(", ")", " "}

\* the characters the expressions below are made of
ExprChars == {"7", "+", "(", " ", ".", "a", "_"}
Expressions == UNION {[1..n -> ExprChars] : n \in 0..MaxExprLen}

\* a handler that evaluates as soon as one character is allowed
_handle_calculator_request_AnyAllowed(expression, raises) ==
  IF expression = <<>>
  THEN [evaluated |-> FALSE, success |-> FALSE, error |-> "No expression provided"]
  ELSE IF \E i \in 1..Len(expression) : expression[i] \in allowed_chars
  THEN IF raises
       THEN [evaluated |-> TRUE, success |-> FALSE, error |-> "Calculation error"]
       ELSE [evaluated |-> TRUE, success |-> TRUE, error |-> ""]
  ELSE [evaluated |-> FALSE, success |-> FALSE, error |-> "Invalid expression"]

\* lines 260-274; eval() either returns a value or raises
_handle_calculator_request(expression, raises) ==
  IF expression = <<>>
  THEN [evaluated |-> FALSE, success |-> FALSE, error |-> "No expression provided"]
  ELSE IF \A i \in 1..Len(expression) : expression[i] \in allowed_chars
  THEN IF raises
       THEN [evaluated |-> TRUE, success |-> FALSE, error |-> "Calculation error"]
       ELSE [evaluated |-> TRUE, success |-> TRUE, error |-> ""]
  ELSE [evaluated |-> FALSE, success |-> FALSE, error |-> "Invalid expression"]

HandleCalculator(expression, raises) ==
  /\ ~calc.handled
  /\ LET r == _handle_calculator_request(expression, raises)
     IN calc' = [expression |-> expression, handled |-> TRUE,
                 evaluated |-> r.evaluated, success |-> r.success,
                 error |-> r.error]
  /\ UNCHANGED <<router, clock, route, task_vars, app, provider, voice_vars>>
  /\ UNCHANGED <<today, budget_data, budget_file, ret, records, clients, llm_vars>>

InitCalc == InitLedger
NextCalc ==
  \E expression \in Expressions, raises \in BOOLEAN :
     HandleCalculator(expression, raises)
SpecCalc == InitCalc /\ [][NextCalc]_vars

(***************************************************************************)
(* VoiceManager.speak without force_tier (lines 303-379), one step per     *)
(* iteration of the loop of line 331, and set_preferred_tier.  speak holds *)
(* VoiceManager.lock, so one speak runs at a time.                         *)
(***************************************************************************)
MaxSpeaks == 2

\* len(text); 0 stands for a blank text
VoiceTextLengths == {0, 1000, 3000}

\* names passed to set_preferred_tier
PreferredNames == TierNames \cup {"siri"}

\* what a tier's engine does when asked to speak: it plays, or it raises
EngineOutcomes == {"played", "raised"}

\* set_preferred_tier, lines 381-388
SetPreferredTier(tier_name) ==
  /\ speech.pc = "idle"
  /\ speech.count < MaxSpeaks
  /\ voice' = IF tier_name \in TierNames
              THEN [voice EXCEPT !.current_tier = TierIndex(tier_name)]
              ELSE voice
  /\ UNCHANGED speech
  /\ UNCHANGED <<today, budget_data, budget_file, ret, records, clients, llm_vars>>
  /\ UNCHANGED mcp_vars

\* a speak that starts from the best tier whatever the preference
Speak_FromBest(characters) ==
  /\ speech.pc = "idle"
  /\ speech.count < MaxSpeaks
  /\ speech' =
       IF characters = 0
       THEN [NoSpeech EXCEPT !.count = speech.count + 1,
                             !.result = [NoSpeechResult EXCEPT !.error = "Empty text"]]
       ELSE [NoSpeech EXCEPT !.count = speech.count + 1,
                             !.characters = characters,
                             !.start = 0,
                             !.index = 0,
                             !.pc = "trying"]
  /\ UNCHANGED voice
  /\ UNCHANGED <<today, budget_data, budget_file, ret, records, clients, llm_vars>>
  /\ UNCHANGED mcp_vars

\* lines 313-329: the blank test and tiers_to_try
Speak(characters) ==
  /\ speech.pc = "idle"
  /\ speech.count < MaxSpeaks
  /\ speech' =
       IF characters = 0
       THEN [NoSpeech EXCEPT !.count = speech.count + 1,
                             !.result = [NoSpeechResult EXCEPT !.error = "Empty text"]]
       ELSE [NoSpeech EXCEPT !.count = speech.count + 1,
                             !.characters = characters,
                             !.start = voice.current_tier,
                             !.index = voice.current_tier,
                             !.pc = "trying"]
  /\ UNCHANGED voice
  /\ UNCHANGED <<today, budget_data, budget_file, ret, records, clients, llm_vars>>
  /\ UNCHANGED mcp_vars

\* lines 331-369 after one tier: return on success, else the next tier, and
\* the failure of lines 371-379 when the list is exhausted
AfterTier(tier, outcome, synthesized) ==
  LET tried == Append(speech.tried, [name |-> tier.name, outcome |-> outcome])
  IN IF outcome = "played"
     THEN [speech EXCEPT
             !.pc = "idle", !.tried = tried, !.synthesized = synthesized,
             !.result = [success |-> TRUE, tier_used |-> tier.name,
                         cost |-> IF tier.name = "elevenlabs"
                                  THEN speech.characters * tier.cost_per_char
                                  ELSE 0,
                         fallback_count |-> speech.fallback_count, error |-> ""]]
     ELSE IF speech.index + 1 < Len(voice_tiers)
     THEN [speech EXCEPT
             !.tried = tried, !.synthesized = synthesized,
             !.index = speech.index + 1,
             !.fallback_count = speech.fallback_count + 1]
     ELSE [speech EXCEPT
             !.pc = "idle", !.tried = tried, !.synthesized = synthesized,
             !.fallback_count = speech.fallback_count + 1,
             !.result = [success |-> FALSE, tier_used |-> "text_only", cost |-> 0,
                         fallback_count |-> speech.fallback_count + 1,
                         error |-> "All voice tiers failed"]]

\* lines 332-334: an unavailable tier is passed over
SkipTier ==
  /\ speech.pc = "trying"
  /\ ~voice.available[voice_tiers[speech.index + 1].name]
  /\ speech' = [speech EXCEPT !.index = speech.index + 1,
                              !.fallback_count = speech.fallback_count + 1]
  /\ UNCHANGED voice
  /\ UNCHANGED <<today, budget_data, budget_file, ret, records, clients, llm_vars>>
  /\ UNCHANGED mcp_vars

\* an ElevenLabs tier that synthesizes whatever can_afford answered
TryElevenLabs_NoGate(engine) ==
  /\ speech.pc = "trying"
  /\ voice_tiers[speech.index + 1].name = "elevenlabs"
  /\ voice.available["elevenlabs"]
  /\ LET tier == voice_tiers[speech.index + 1]
         estimated_cost == calculate_cost("elevenlabs", "standard", 0, 0,
                                          speech.characters)
         r == can_afford(budget_data, "elevenlabs", estimated_cost, now)
     IN IF engine = "raised"
        THEN /\ budget_data' = r.bd
             /\ speech' = AfterTier(tier, "raised", speech.synthesized + 1)
             /\ UNCHANGED budget_file
        ELSE /\ budget_data' = record_usage(r.bd, "elevenlabs", estimated_cost, now)
             /\ \E o \in SaveOutcomes(budget_data', budget_file) :
                   /\ budget_file' = o.file
                   /\ speech' = AfterTier(tier,
                                          IF o.raised THEN "raised" ELSE "played",
                                          speech.synthesized + 1)
  /\ ret' = NoCall
  /\ UNCHANGED voice
  /\ UNCHANGED <<today, records, clients, llm_vars>>
  /\ UNCHANGED mcp_vars

\* lines 344-347 with _speak_elevenlabs, lines 193-223: the budget check,
\* convert and play, then record_usage, all inside one try
TryElevenLabs(engine) ==
  /\ speech.pc = "trying"
  /\ voice_tiers[speech.index + 1].name = "elevenlabs"
  /\ voice.available["elevenlabs"]
  /\ LET tier == voice_tiers[speech.index + 1]
         estimated_cost == calculate_cost("elevenlabs", "standard", 0, 0,
                                          speech.characters)
         r == can_afford(budget_data, "elevenlabs", estimated_cost, now)
     IN IF ~r.ok
        THEN /\ budget_data' = r.bd
             /\ speech' = AfterTier(tier, "denied", speech.synthesized)
             /\ UNCHANGED budget_file
        ELSE IF engine = "raised"
        THEN /\ budget_data' = r.bd
             /\ speech' = AfterTier(tier, "raised", speech.synthesized + 1)
             /\ UNCHANGED budget_file
        ELSE /\ budget_data' = record_usage(r.bd, "elevenlabs", estimated_cost, now)
             /\ \E o \in SaveOutcomes(budget_data', budget_file) :
                   /\ budget_file' = o.file
                   /\ speech' = AfterTier(tier,
                                          IF o.raised THEN "raised" ELSE "played",
                                          speech.synthesized + 1)
  /\ ret' = NoCall
  /\ UNCHANGED voice
  /\ UNCHANGED <<today, records, clients, llm_vars>>
  /\ UNCHANGED mcp_vars

\* lines 348-353 with _speak_edge_tts, _speak_gtts, _speak_pyttsx3
TryFreeTier(engine) ==
  /\ speech.pc = "trying"
  /\ voice_tiers[speech.index + 1].name \in {"edge_tts", "gtts", "pyttsx3"}
  /\ voice.available[voice_tiers[speech.index + 1].name]
  /\ speech' = AfterTier(voice_tiers[speech.index + 1], engine, speech.synthesized)
  /\ UNCHANGED voice
  /\ UNCHANGED <<today, budget_data, budget_file, ret, records, clients, llm_vars>>
  /\ UNCHANGED mcp_vars

\* lines 354-356: the text is printed
TryTextOnly ==
  /\ speech.pc = "trying"
  /\ voice_tiers[speech.index + 1].name = "text_only"
  /\ voice.available["text_only"]
  /\ speech' = AfterTier(voice_tiers[speech.index + 1], "played", speech.synthesized)
  /\ UNCHANGED voice
  /\ UNCHANGED <<today, budget_data, budget_file, ret, records, clients, llm_vars>>
  /\ UNCHANGED mcp_vars

\* the probes of lines 82-116 and the setups of lines 118-191 may leave any
\* tier but text_only unavailable
InitVoice ==
  /\ LedgerAtRest
  /\ LLMAtRest
  /\ CtxAtRest
  /\ MCPAtRest
  /\ voice \in {NewVoiceManager(available) : available \in [TierNames -> BOOLEAN]}
  /\ speech = NoSpeech

TryTier ==
  \/ SkipTier
  \/ \E engine \in EngineOutcomes : TryElevenLabs(engine)
  \/ \E engine \in EngineOutcomes : TryFreeTier(engine)
  \/ TryTextOnly

NextVoice ==
  \/ \E tier_name \in PreferredNames : SetPreferredTier(tier_name)
  \/ \E characters \in VoiceTextLengths : Speak(characters)
  \/ TryTier
  \/ Tick
SpecVoice == InitVoice /\ [][NextVoice]_vars

\* every engine call returns or raises, and the loop goes on
FairSpecVoice == SpecVoice /\ WF_vars(TryTier)

(***************************************************************************)
(* What the ledger claims are stated with.                                 *)
(***************************************************************************)
\* the spend a bucket stands for: usage.get(service, zeros)[period]
UsageOf(bd, service, period) ==
  IF service \in DOMAIN bd.usage THEN bd.usage[service][period] ELSE 0

\* a period whose key changed since last_reset: its reset is pending
Pending(bd, period) == bd.last_reset[period] # now[period]

\* the spend of the current period: nothing yet when the reset is pending
FreshUsage(bd, service, period) ==
  IF Pending(bd, period) THEN 0 ELSE UsageOf(bd, service, period)

\* the limits configured for a service, none when it has no entry
ConfiguredLimits(bd, service) ==
  IF service \in DOMAIN bd.limits THEN bd.limits[service]
  ELSE IF service \in DOMAIN default_limits THEN default_limits[service]
  ELSE EmptyDict

\* some configured period of the service cannot take the cost
OverSomeLimit(bd, service, cost) ==
  \E p \in Periods :
     /\ p \in DOMAIN ConfiguredLimits(bd, service)
     /\ FreshUsage(bd, service, p) + cost > ConfiguredLimits(bd, service)[p]

ResettingOps == {"can_afford", "record_usage", "get_budget_status"}

\* what the call of this step adds to a bucket
AddedBy(r, service) ==
  IF r.op = "record_usage" /\ r.service = service THEN r.cost ELSE 0

(***************************************************************************)
(* C7: can_afford(service, c) returns false exactly when, after the        *)
(* pending period resets, some configured period of the service has        *)
(* usage + c > limit, and true otherwise; a cost that brings usage exactly *)
(* to the limit is affordable and a service without configured limits is   *)
(* always affordable.                                                      *)
(***************************************************************************)
C7_CanAffordExact ==
  [][ret'.op = "can_afford" =>
        /\ ret'.ok = ~OverSomeLimit(budget_data, ret'.service, ret'.cost)
        /\ (DOMAIN ConfiguredLimits(budget_data, ret'.service) = {}) => ret'.ok]_vars

\* can_afford accepted a cost that fills a configured period exactly
C7_Witness ==
  /\ ret.op = "can_afford"
  /\ ret.ok
  /\ \E p \in DOMAIN ConfiguredLimits(budget_data, ret.service) :
        UsageOf(budget_data, ret.service, p) + ret.cost
          = ConfiguredLimits(budget_data, ret.service)[p]

(***************************************************************************)
(* C8 as stated: record_usage(service, c) increases the daily, weekly and  *)
(* monthly usage of that service by exactly c each and leaves the usage of *)
(* every other service and all limits unchanged.                           *)
(***************************************************************************)
C8_AsStated ==
  [][ret'.op = "record_usage" =>
        /\ \A p \in Periods :
              UsageOf(budget_data', ret'.service, p)
                = UsageOf(budget_data, ret'.service, p) + ret'.cost
        /\ \A s \in Services \ {ret'.service} : \A p \in Periods :
              UsageOf(budget_data', s, p) = UsageOf(budget_data, s, p)
        /\ budget_data'.limits = budget_data.limits]_vars

(***************************************************************************)
(* C8 amended: record_usage(service, c) adds exactly c to the daily,       *)
(* weekly and monthly usage of that service and leaves every other service *)
(* and all limits unchanged, counted from the ledger as the pending period *)
(* resets leave it (a bucket whose period key changed restarts from 0, for *)
(* every service); while no period key has changed since construction the  *)
(* three buckets of a service are equal.                                   *)
(***************************************************************************)
C8_RecordAddsCost ==
  /\ [][ret'.op = "record_usage" =>
          /\ \A p \in Periods :
                UsageOf(budget_data', ret'.service, p)
                  = FreshUsage(budget_data, ret'.service, p) + ret'.cost
          /\ \A s \in Services \ {ret'.service} : \A p \in Periods :
                UsageOf(budget_data', s, p) = FreshUsage(budget_data, s, p)
          /\ budget_data'.limits = budget_data.limits]_vars
  /\ [](today = 1 =>
          \A s \in DOMAIN budget_data.usage : \A p, q \in Periods :
             budget_data.usage[s][p] = budget_data.usage[s][q])

\* a second recording for a service: its three buckets hold both costs
C8_Witness ==
  /\ ret.op = "record_usage"
  /\ ret.cost > 0
  /\ \A p \in Periods : UsageOf(budget_data, ret.service, p) = 2 * ret.cost

(***************************************************************************)
(* C9: when a period key has changed since last_reset, the next            *)
(* can_afford, record_usage or get_budget_status zeroes that period's      *)
(* usage for every service before evaluating, leaves the buckets of the    *)
(* periods whose key did not change untouched and sets last_reset of the   *)
(* period to the current key; spend recorded before the rollover does not  *)
(* count against the new period.                                           *)
(***************************************************************************)
C9_ResetOnRollover ==
  [][ret'.op \in ResettingOps =>
        /\ budget_data'.last_reset = now
        /\ \A s \in DOMAIN budget_data.usage : \A p \in Periods :
              budget_data'.usage[s][p] =
                 (IF Pending(budget_data, p) THEN 0 ELSE budget_data.usage[s][p])
                   + AddedBy(ret', s)
        /\ (ret'.op = "can_afford" /\ ~ret'.ok) =>
              \E p \in DOMAIN ConfiguredLimits(budget_data, ret'.service) :
                 (IF Pending(budget_data, p) THEN 0
                  ELSE UsageOf(budget_data, ret'.service, p)) + ret'.cost
                    > ConfiguredLimits(budget_data, ret'.service)[p]]_vars

\* a call after the week rolled over but not the month: the weekly bucket
\* restarted, the monthly one kept the earlier spend
C9_Witness ==
  /\ ret.op \in ResettingOps
  /\ budget_data.last_reset = now
  /\ \E s \in DOMAIN budget_data.usage :
        /\ budget_data.usage[s]["weekly"] = AddedBy(ret, s)
        /\ budget_data.usage[s]["monthly"] > AddedBy(ret, s)

(***************************************************************************)
(* C10: the period reset is idempotent: run again while the day, week and  *)
(* month keys are the ones it stored, it changes no usage value and no     *)
(* last_reset entry.                                                       *)
(***************************************************************************)
C10_ResetIdempotent ==
  /\ [][(ret'.op = "get_budget_status" /\ budget_data.last_reset = now) =>
           budget_data' = budget_data]_vars
  /\ [](LET once == _check_and_reset_periods(budget_data, now)
        IN _check_and_reset_periods(once, now) = once)

\* a status call on a later day that found spend of that same day: the
\* recording had run the reset under these keys, the status call ran it again
C10_Witness ==
  /\ ret.op = "get_budget_status"
  /\ today > 1
  /\ budget_data.last_reset = now
  /\ \E s \in DOMAIN budget_data.usage : budget_data.usage[s]["daily"] > 0

(***************************************************************************)
(* What the orchestrator claims are stated with.                           *)
(***************************************************************************)
\* get_response has returned
Done == pc = "idle" /\ result # NoResult

\* the event closes a successful call of its pair
SuccessEvent(e) ==
  \/ e.ev \in {"billed", "emergency"}
  \/ e.ev = "api_ok" /\ Pairs[e.at].name = "llama"

\* the event is an API call to a paid provider
PaidApiCall(e) ==
  e.ev \in {"api_ok", "api_failed"} /\ Pairs[e.at].name \in PaidNames

UsageIn(usage, service, period) ==
  IF service \in DOMAIN usage THEN usage[service][period] ELSE 0

(***************************************************************************)
(* C1: get_response attempts the (provider, model) pairs strictly in chain *)
(* order; a provider with available = false is never invoked; the response *)
(* returned comes from the first pair whose call succeeds, source and      *)
(* model name that pair, and no pair after it is invoked.                  *)
(***************************************************************************)
C1_ChainOrder ==
  /\ \A i \in 1..Len(trace) : llm_chain[Pairs[trace[i].at].name]
  /\ \A i, j \in 1..Len(trace) : i < j => trace[i].at <= trace[j].at
  /\ \A i \in 1..Len(trace) :
        \A q \in 1..(trace[i].at - 1) :
           llm_chain[Pairs[q].name] => \E j \in 1..i : trace[j].at = q
  /\ \A i \in 1..Len(trace) : SuccessEvent(trace[i]) => i = Len(trace)
  /\ Done =>
        /\ trace # <<>>
        /\ SuccessEvent(trace[Len(trace)])
        /\ result.source = Pairs[trace[Len(trace)].at].name
        /\ result.model = Pairs[trace[Len(trace)].at].model

\* openai unavailable, both claude models failed, llama answered
C1_Witness ==
  /\ Done
  /\ ~llm_chain["openai"] /\ llm_chain["claude"]
  /\ result.source = "llama"
  /\ \E i \in 1..Len(trace) : trace[i].ev = "api_failed" /\ Pairs[trace[i].at].name = "claude"

(***************************************************************************)
(* C2: for every input, availability flags, ledger state and call          *)
(* outcomes, get_response terminates and returns a result; when every      *)
(* non-emergency pair is unavailable, budget-denied or failing, the result *)
(* has success = true and cost = 0 and its source is the emergency         *)
(* responder.                                                              *)
(***************************************************************************)
C2_AlwaysAnswers ==
  /\ [](Done =>
          /\ result.success
          /\ (\A i \in 1..Len(trace) :
                 SuccessEvent(trace[i]) => Pairs[trace[i].at].name = "emergency")
               => (result.source = "emergency" /\ result.cost = 0))
  /\ [](pc # "idle" => <>Done)

\* openai and claude available and the emergency responder answered: one
\* pair budget-denied, one failed in the API call
C2_Witness ==
  /\ Done
  /\ result.source = "emergency"
  /\ llm_chain["openai"] /\ llm_chain["claude"]
  /\ \E i \in 1..Len(trace) : trace[i].ev = "denied"
  /\ \E i \in 1..Len(trace) : trace[i].ev = "api_failed"

(***************************************************************************)
(* C3: whenever the ledger denies the estimated cost of an openai or       *)
(* claude pair, no API call is made for that pair and the orchestrator     *)
(* goes on with the next model or provider; a paid API call is made only   *)
(* after can_afford returned true for that service in the same attempt.    *)
(***************************************************************************)
C3_BudgetGate ==
  /\ \A i \in 1..Len(trace) :
        PaidApiCall(trace[i]) =>
           /\ i > 1
           /\ trace[i-1].ev = "afforded"
           /\ trace[i-1].at = trace[i].at
  /\ \A i \in 1..Len(trace) :
        trace[i].ev = "denied" =>
           \A j \in 1..Len(trace) : j # i => trace[j].at # trace[i].at
  /\ (trace # <<>> /\ trace[Len(trace)].ev = "denied") =>
        LET e == trace[Len(trace)] IN
          /\ pc = "try"
          /\ pos > e.at
          /\ llm_chain[Pairs[pos].name]
          /\ \A q \in (e.at + 1)..(pos - 1) : ~llm_chain[Pairs[q].name]
          /\ OverSomeLimit(budget_data, Pairs[e.at].name, e.cost)
  /\ (trace # <<>> /\ trace[Len(trace)].ev = "afforded") =>
        LET e == trace[Len(trace)] IN
          /\ pc = "call"
          /\ pos = e.at
          /\ ~OverSomeLimit(budget_data, Pairs[e.at].name, e.cost)

\* gpt-4 was denied, gpt-3.5-turbo was affordable and answered
C3_Witness ==
  /\ Done
  /\ result.source = "openai"
  /\ \E i \in 1..Len(trace) : trace[i].ev = "denied" /\ Pairs[trace[i].at].name = "openai"

(***************************************************************************)
(* C4: if a provider call attempted during get_response raises or returns  *)
(* an error, the usage of every service in every period is what it was     *)
(* before the attempt: a failed attempt is never billed.                   *)
(***************************************************************************)
C4_NoBillingOnFailure ==
  [][(pc # "idle" /\ pos' # pos) =>
        \A s \in Services : \A p \in Periods :
           UsageOf(budget_data', s, p) = FreshUsage(budget_data, s, p)]_vars

(***************************************************************************)
(* C6: during one get_response call the ledger is debited at most once:    *)
(* usage grows only for the service of the provider returned as source, by *)
(* exactly the returned cost, and not at all for any other service.        *)
(***************************************************************************)
C6_SingleDebit ==
  Done =>
    \A s \in Services : \A p \in Periods :
       UsageOf(budget_data, s, p) =
          UsageIn(request.start, s, p) + (IF s = result.source THEN result.cost ELSE 0)

(***************************************************************************)
(* C5: two concurrent callers that each do can_afford and then             *)
(* record_usage on the same service cannot both pass can_afford against    *)
(* the same remaining balance and together push the usage of a period      *)
(* above its limit.                                                        *)
(***************************************************************************)
C5_CheckThenCommitAtomic ==
  ~ /\ \A c \in Clients : clients[c].pc = "done"
    /\ clients[1].seen = clients[2].seen
    /\ \E p \in DOMAIN ConfiguredLimits(budget_data, "elevenlabs") :
          UsageOf(budget_data, "elevenlabs", p)
            > ConfiguredLimits(budget_data, "elevenlabs")[p]

(***************************************************************************)
(* C11: when writing the budget file fails, record_usage and               *)
(* set_budget_limit still complete without raising to their caller, with   *)
(* the recorded cost in the in-memory ledger.                              *)
(***************************************************************************)
C11_SaveFailureSwallowed ==
  [][ret'.op \in {"record_usage", "set_budget_limit"} =>
        /\ ~ret'.raised
        /\ ret'.op = "record_usage" =>
              \A p \in Periods :
                 UsageOf(budget_data', ret'.service, p)
                   = FreshUsage(budget_data, ret'.service, p) + ret'.cost]_vars

(***************************************************************************)
(* C12: after every BudgetManager operation that changed usage, limits or  *)
(* last_reset, the persisted document equals the in-memory ledger.         *)
(***************************************************************************)
C12_PersistedAfterMutation ==
  [][(ret'.op # "none" /\ budget_data' # budget_data) =>
        /\ budget_file'.state = "written"
        /\ budget_file'.doc = budget_data']_vars

\* a model name that is no key of the price table
UnlistedModel == "gpt-5"

(***************************************************************************)
(* C13: calculate_cost returns 0 for a service or model absent from the    *)
(* price table, and in every ledger state get_response reaches, the        *)
(* affordability check does not deny a call whose model is absent from the *)
(* price table.                                                            *)
(***************************************************************************)
C13_UnknownModelNeverBlocked ==
  \A s \in Services :
     LET est == calculate_cost(s, UnlistedModel, 1000, 500, 1000) IN
       /\ est = 0
       /\ can_afford(budget_data, s, est, now).ok

(***************************************************************************)
(* What the context claims are stated with.                                *)
(***************************************************************************)
\* _compress_context was called on a history over the token limit
CompressedOverLimit ==
  compressed.done /\ SumTokens(compressed.given) > max_context_length

Range(seq) == {seq[i] : i \in 1..Len(seq)}

\* the messages of a list that are not system messages, in list order
NonSystem(seq) == SelectSeq(seq, LAMBDA m : m.role # "system")

\* the messages of the input that are not in the output
Discarded == Range(compressed.given) \ Range(compressed.out)

\* the positions of the output that hold the compression note
NotePositions == {i \in 1..Len(compressed.out) : compressed.out[i] = summary_msg}

(***************************************************************************)
(* C14: for every history whose estimated token total exceeds              *)
(* max_context_length, the estimated token total of the whole output of    *)
(* _compress_context (system message, retained turns and note together) is *)
(* at most max_context_length.                                             *)
(***************************************************************************)
C14_CompressedWithinLimit ==
  CompressedOverLimit => SumTokens(compressed.out) <= max_context_length

(***************************************************************************)
(* C15: if the history starts with a system message and exceeds the token  *)
(* limit, that system message is retained and is the first message of the  *)
(* compressed output.                                                      *)
(***************************************************************************)
C15_SystemMessageFirst ==
  (CompressedOverLimit /\ compressed.given[1].role = "system") =>
     /\ compressed.out # <<>>
     /\ compressed.out[1] = compressed.given[1]

(***************************************************************************)
(* C16: the non-system messages retained by _compress_context are a        *)
(* contiguous suffix of the non-system messages of the input and appear in *)
(* the output in their original relative order, whether or not the input   *)
(* starts with a system message.                                           *)
(***************************************************************************)
C16_RecentSuffixInOrder ==
  compressed.done =>
     LET turns == NonSystem(compressed.given)
         kept == NonSystem(compressed.out)
     IN \E k \in 0..Len(turns) : kept = SubSeq(turns, k + 1, Len(turns))

(***************************************************************************)
(* C17: the output of _compress_context contains exactly one compression   *)
(* note if and only if at least one message of the input was discarded,    *)
(* and no note when nothing was discarded.                                 *)
(***************************************************************************)
C17_NoteIffDiscarded ==
  compressed.done =>
     /\ Cardinality(NotePositions) <= 1
     /\ (Cardinality(NotePositions) = 1) <=> (Discarded # {})

(***************************************************************************)
(* C18: for every get_response call, the estimated token total of the      *)
(* complete message list passed to a provider (system instruction,         *)
(* compressed context and new user input together) is at most              *)
(* max_context_length.                                                     *)
(***************************************************************************)
C18_MessagesWithinLimit ==
  ret.op = "get_response" => SumTokens(messages) <= max_context_length

\* the list is made of (user, assistant) pairs, each pair of one request,
\* the requests in the order they were made
IsExchangePairs(history) ==
  /\ Len(history) % 2 = 0
  /\ \A k \in 1..(Len(history) \div 2) :
        /\ history[2 * k - 1].role = "user"
        /\ history[2 * k].role = "assistant"
        /\ history[2 * k - 1].id = history[2 * k].id
        /\ k > 1 => history[2 * k - 2].id < history[2 * k - 1].id

(***************************************************************************)
(* C19: after any sequence of get_response and clear_context calls,        *)
(* context_history has at most 20 entries and is a sequence of (user,      *)
(* assistant) pairs in request order; each answered request appends        *)
(* exactly its own pair behind the entries that were there, a length above *)
(* 20 is cut to the newest 16 entries, and clear_context empties the       *)
(* history.                                                                *)
(***************************************************************************)
C19_HistoryBounded ==
  /\ [](Len(context_history) <= 20 /\ IsExchangePairs(context_history))
  /\ [][ret'.op = "get_response" =>
          LET old == context_history
              new == context_history'
              len == IF Len(old) + 2 > 20 THEN 16 ELSE Len(old) + 2
          IN /\ Len(new) = len
             /\ new[len - 1].role = "user" /\ new[len - 1].id = requests'
             /\ new[len].role = "assistant" /\ new[len].id = requests'
             /\ SubSeq(new, 1, len - 2)
                  = SubSeq(old, Len(old) - (len - 2) + 1, Len(old))]_vars
  /\ [][ret'.op = "clear_context" => context_history' = <<>>]_vars

\* the eleventh exchange of a conversation: 22 entries were cut to 16
C19_Witness ==
  /\ ret.op = "get_response"
  /\ Len(context_history) = 16
  /\ context_history[1].id = requests - 7
  /\ context_history[16].id = requests

(***************************************************************************)
(* What the router claims are stated with.                                 *)
(***************************************************************************)
\* the agents that were healthy and declared the capability when the
\* running (or last) route_request looked its candidates up
HealthyDeclaring ==
  {n \in DOMAIN route.seen :
     /\ route.seen[n].is_healthy
     /\ \E i \in 1..Len(route.seen[n].capabilities) :
           route.seen[n].capabilities[i] = route.capability}

\* the key (priority, minus success rate, average response time) of a is
\* not above that of b
KeyAtMost(a, b) ==
  \/ a.priority < b.priority
  \/ /\ a.priority = b.priority
     /\ a.success_rate.num * b.success_rate.den
          > b.success_rate.num * a.success_rate.den
  \/ /\ a.priority = b.priority
     /\ a.success_rate.num * b.success_rate.den
          = b.success_rate.num * a.success_rate.den
     /\ get_avg_response_time(a).num * get_avg_response_time(b).den
          <= get_avg_response_time(b).num * get_avg_response_time(a).den

(***************************************************************************)
(* C20: for a capability that is not built in, route_request attempts the  *)
(* healthy agents declaring it in ascending order of the key (priority,    *)
(* minus success rate, average response time) they had at the lookup: the  *)
(* first attempt goes to a healthy agent with the lowest priority number,  *)
(* whatever its success rate, and success rate and latency only break      *)
(* ties.                                                                   *)
(***************************************************************************)
C20_PriorityOrder ==
  (route.count > 0 /\ route.capability \notin system_capabilities) =>
     LET agents == route.agents
         n == Len(agents)
     IN /\ Range(agents) = HealthyDeclaring
        /\ \A i, j \in 1..n : i < j =>
              /\ agents[i] # agents[j]
              /\ KeyAtMost(route.seen[agents[i]], route.seen[agents[j]])
        /\ \A i \in 1..Len(route.log) : route.log[i] = agents[((i - 1) % n) + 1]
        /\ route.log # <<>> =>
              \A a \in HealthyDeclaring :
                 route.seen[route.log[1]].priority <= route.seen[a].priority

\* the agent of priority 1 was tried first although the agent of priority 2
\* had the higher success rate
C20_Witness ==
  /\ route.capability = "web_search"
  /\ route.log # <<>>
  /\ route.log[1] = "helper_agent"
  /\ "search_agent" \in HealthyDeclaring
  /\ QLess(route.seen["helper_agent"].success_rate,
           route.seen["search_agent"].success_rate)

\* the step is the start of a route_request for a built-in capability
BuiltInRouted ==
  /\ route'.count = route.count + 1
  /\ route'.capability \in system_capabilities

(***************************************************************************)
(* C21: a route_request for a built-in capability returns the result of    *)
(* the local handler (a failure for weather), sends no request to any      *)
(* registered agent and leaves the health flag and the statistics of every *)
(* agent as they were, also when the health-check interval has elapsed.    *)
(***************************************************************************)
C21_BuiltInLeavesAgentsAlone ==
  [][BuiltInRouted =>
       /\ route'.result.kind = "local"
       /\ route'.capability = "weather" => ~route'.result.success
       /\ route'.log = <<>>
       /\ router'.agents = router.agents]_vars

\* the registered agents that declared the routed capability, by the lookup
Declaring ==
  {n \in DOMAIN route.seen :
     \E i \in 1..Len(route.seen[n].capabilities) :
        route.seen[n].capabilities[i] = route.capability}

CallsTo(n) == Cardinality({i \in 1..Len(route.log) : route.log[i] = n})

\* the attempts made so far follow the lookup's list in full passes, all of
\* them but a final successful one failed, and after (max_retries + 1) * n
\* failures the request is over with "all agents failed"
AttemptsInPasses ==
  (/\ route.count > 0
   /\ route.capability \notin system_capabilities
   /\ HealthyDeclaring # {}) =>
     LET n == Len(route.agents)
         limit == (route.max_retries + 1) * n
         made == Len(route.log)
         won == route.result.kind = "agent"
     IN /\ n = Cardinality(HealthyDeclaring)
        /\ \A i \in 1..made : route.log[i] = route.agents[((i - 1) % n) + 1]
        /\ route.pc = "attempting" =>
              /\ made < limit
              /\ route.result = NoRouteResult
              /\ route.attempt * n + route.index = made + 1
        /\ route.pc = "idle" =>
              \/ /\ won
                 /\ route.result.success
                 /\ made \in 1..limit
                 /\ route.result.agent = route.log[made]
              \/ /\ route.result = [kind |-> "all_failed", success |-> FALSE, agent |-> ""]
                 /\ made = limit
        /\ \A a \in DOMAIN route.seen :
              /\ router.agents[a].total_requests
                   = route.seen[a].total_requests + CallsTo(a)
              /\ router.agents[a].successful_requests
                   = route.seen[a].successful_requests
                       + (IF won /\ route.result.agent = a THEN 1 ELSE 0)

(***************************************************************************)
(* C23: with n >= 1 healthy agents at the lookup, route_request attempts   *)
(* them in the sorted order in repeated full passes, returns at the first  *)
(* success, and otherwise ends with "all agents failed" after exactly      *)
(* (max_retries + 1) * n failed attempts. It terminates: while it is       *)
(* attempting, the next call can be made, every step is one more attempt   *)
(* and the number of attempts stays below that limit.                      *)
(***************************************************************************)
C23_PassesThenAllFailed ==
  /\ []AttemptsInPasses
  /\ [](route.pc = "attempting" => ENABLED AttemptStep)
  /\ [][route.pc = "attempting" =>
          /\ Len(route'.log) = Len(route.log) + 1
          /\ route'.agents = route.agents
          /\ route'.max_retries = route.max_retries]_vars

\* two healthy candidates, max_retries = 2: six failed attempts
C23_Witness ==
  /\ route.result.kind = "all_failed"
  /\ Len(route.agents) = 2
  /\ Len(route.log) = (route.max_retries + 1) * 2
  /\ route.max_retries = 2

\* the step is a failed capability call to agent n
FailedAttemptOn(n) ==
  /\ route.pc = "attempting"
  /\ route.agents[route.index] = n
  /\ router'.agents[n].total_requests = router.agents[n].total_requests + 1
  /\ router'.agents[n].successful_requests = router.agents[n].successful_requests

\* the step ran a health-check round in which agent n answered
HealthCheckSucceeded(n) ==
  /\ route'.count = route.count + 1
  /\ clock - router.last_health_check >= health_check_interval
  /\ router'.last_health_check = clock
  /\ router'.agents[n].successful_requests = router.agents[n].successful_requests + 1

C25_OneRoundPerInterval ==
  \A i, j \in 1..Len(rounds) :
     i < j => rounds[j] - rounds[i] >= health_check_interval

(***************************************************************************)
(* C26: concurrent updates of one agent's statistics lose nothing: once    *)
(* no update is in progress, total_requests is the number of calls that    *)
(* completed, successful_requests the number of those that succeeded, and  *)
(* success_rate their quotient.                                            *)
(***************************************************************************)
C26_NoLostUpdate ==
  (\A c \in Callers : tasks[c].pc = "idle") =>
     LET agent == router.agents[StatsAgent]
     IN /\ agent.total_requests = Len(completed.times)
        /\ agent.successful_requests = completed.successes
        /\ agent.total_requests > 0 =>
              QEqual(agent.success_rate,
                     [num |-> completed.successes, den |-> Len(completed.times)])

(***************************************************************************)
(* C27: after any sequence of calls to an agent,                           *)
(* 0 <= successful_requests <= total_requests, success_rate lies in [0, 1] *)
(* and is successful_requests / total_requests once a call was made (1.0   *)
(* before the first), and response_times holds at most 10 entries, which   *)
(* are the most recent response times in their order of arrival.           *)
(***************************************************************************)
C27_StatsInvariant ==
  LET agent == router.agents[StatsAgent]
      n == Len(completed.times)
      kept == IF n > KeptResponseTimes THEN KeptResponseTimes ELSE n
  IN /\ agent.total_requests = n
     /\ 0 <= agent.successful_requests
     /\ agent.successful_requests <= agent.total_requests
     /\ agent.success_rate.den > 0
     /\ 0 <= agent.success_rate.num
     /\ agent.success_rate.num <= agent.success_rate.den
     /\ IF n = 0
        THEN QEqual(agent.success_rate, [num |-> 1, den |-> 1])
        ELSE QEqual(agent.success_rate,
                    [num |-> agent.successful_requests, den |-> agent.total_requests])
     /\ Len(agent.response_times) <= KeptResponseTimes
     /\ agent.response_times = SubSeq(completed.times, n - kept + 1, n)

\* the eleventh call pushed out the oldest response time
C27_Witness ==
  /\ Len(completed.times) > KeptResponseTimes
  /\ completed.times[1] = 2
  /\ router.agents[StatsAgent].response_times[1] = 1
  /\ Len(router.agents[StatsAgent].response_times) = KeptResponseTimes
  /\ router.agents[StatsAgent].successful_requests \in 1..KeptResponseTimes

\* every character of the handled expression is a digit, an operator, a
\* parenthesis, a decimal point or a space
AllAllowed ==
  \A i \in 1..Len(calc.expression) : calc.expression[i] \in allowed_chars

(***************************************************************************)
(* C28: the calculator handler evaluates the expression only if it is not  *)
(* empty and each of its characters is a digit, one of + - * /, a          *)
(* parenthesis, a decimal point or a space; the empty expression and an    *)
(* expression with any other character yield a failure without evaluation, *)
(* and a success is always the outcome of an evaluation.                   *)
(***************************************************************************)
C28_EvaluatesOnlyAllowed ==
  calc.handled =>
     /\ calc.evaluated => (calc.expression # <<>> /\ AllAllowed)
     /\ (calc.expression = <<>> \/ ~AllAllowed) =>
           (~calc.evaluated /\ ~calc.success /\ calc.error # "")
     /\ calc.success => calc.evaluated

\* "7+a": a letter after allowed characters, refused without evaluation
C28_Witness ==
  /\ calc.handled
  /\ calc.expression = <<"7", "+", "a">>
  /\ ~calc.evaluated
  /\ calc.error = "Invalid expression"

\* the names of the available tiers at the 0-based positions a .. b - 1
AvailableBetween(a, b) ==
  SelectSeq([i \in 1..(b - a) |-> voice_tiers[a + i].name],
            LAMBDA n : voice.available[n])

TriedNames == [i \in 1..Len(speech.tried) |-> speech.tried[i].name]

\* speak walks the available tiers from the preferred one in order, and
\* returns at the first that plays
SpeakCascades ==
  /\ speech.pc = "trying" =>
        /\ speech.start = voice.current_tier
        /\ speech.index \in speech.start..(Len(voice_tiers) - 1)
        /\ TriedNames = AvailableBetween(speech.start, speech.index)
        /\ \A i \in 1..Len(speech.tried) : speech.tried[i].outcome # "played"
        /\ speech.fallback_count = speech.index - speech.start
  /\ (speech.pc = "idle" /\ speech.count > 0 /\ speech.characters > 0) =>
        /\ speech.result.success
        /\ speech.result.tier_used \in TierNames
        /\ LET used == TierIndex(speech.result.tier_used)
               last == Len(speech.tried)
           IN /\ TriedNames = AvailableBetween(speech.start, used + 1)
              /\ speech.tried[last] = [name |-> speech.result.tier_used,
                                       outcome |-> "played"]
              /\ \A i \in 1..(last - 1) : speech.tried[i].outcome # "played"
              /\ speech.result.fallback_count = used - speech.start
              /\ speech.result.tier_used = "text_only" <=>
                    \A k \in speech.start..(Len(voice_tiers) - 2) :
                       \/ ~voice.available[voice_tiers[k + 1].name]
                       \/ \E i \in 1..(last - 1) :
                             speech.tried[i].name = voice_tiers[k + 1].name

(***************************************************************************)
(* C29: speak without force_tier on a non-blank text, for any availability *)
(* and failure pattern and any preferred tier, tries the tiers in quality  *)
(* order from the preferred one, stops at the first success and always     *)
(* returns, with success = true; tier_used is text_only exactly when every *)
(* earlier tier was unavailable or failed.                                 *)
(***************************************************************************)
C29_SpeakAlwaysSucceeds ==
  /\ []SpeakCascades
  /\ (speech.pc = "trying") ~> (speech.pc = "idle")

\* preferred tier gtts: gtts and pyttsx3 were tried and failed, the text was
\* printed
C29_Witness ==
  /\ speech.pc = "idle"
  /\ speech.start = 2
  /\ TriedNames = <<"gtts", "pyttsx3", "text_only">>
  /\ speech.result.success
  /\ speech.result.tier_used = "text_only"
  /\ speech.result.fallback_count = 2

\* the step is one iteration of speak's loop, on the tier of this name
LoopStepOn(name) ==
  /\ speech.pc = "trying"
  /\ voice_tiers[speech.index + 1].name = name
  /\ speech' # speech

\* the estimate of the text being spoken does not fit the ElevenLabs budget
SpeechDenied ==
  OverSomeLimit(budget_data, "elevenlabs",
                calculate_cost("elevenlabs", "standard", 0, 0, speech.characters))

\* a denied ElevenLabs tier makes no synthesis call and hands over to the
\* next tier
DeniedCascades ==
  (LoopStepOn("elevenlabs") /\ voice.available["elevenlabs"] /\ SpeechDenied) =>
     /\ speech'.synthesized = speech.synthesized
     /\ speech'.pc = "trying"
     /\ speech'.index = speech.index + 1
     /\ budget_file' = budget_file
     /\ budget_data'.limits = budget_data.limits

\* the other tiers, and the rest of the VoiceManager, leave the ledger alone
OnlyPremiumTouchesLedger ==
  (\/ \E name \in TierNames \ {"elevenlabs"} : LoopStepOn(name)
   \/ LoopStepOn("elevenlabs") /\ ~voice.available["elevenlabs"]
   \/ speech.pc = "idle" /\ speech' # speech
   \/ voice' # voice) =>
     /\ budget_data' = budget_data
     /\ budget_file' = budget_file

\* a speak served by a tier below ElevenLabs reports cost 0
LowerTierIsFree ==
  (speech.result.success /\ speech.result.tier_used # "elevenlabs") =>
     speech.result.cost = 0

(***************************************************************************)
(* C30 as stated: only the premium tier is budget-gated; when the          *)
(* elevenlabs affordability check denies, no ElevenLabs synthesis call is  *)
(* made, the ledger usage is unchanged and the request cascades to the     *)
(* next tier; no other tier reads or debits the ledger; a speak served by  *)
(* a lower tier reports cost 0.                                            *)
(***************************************************************************)
C30_AsStated ==
  /\ [][DeniedCascades]_vars
  /\ [][(LoopStepOn("elevenlabs") /\ voice.available["elevenlabs"] /\ SpeechDenied) =>
          \A s \in Services : \A p \in Periods :
             UsageOf(budget_data', s, p) = UsageOf(budget_data, s, p)]_vars
  /\ [][OnlyPremiumTouchesLedger]_vars
  /\ []LowerTierIsFree

(***************************************************************************)
(* C30 amended: as above, except that a denied check debits nothing but    *)
(* leaves the ledger as the pending period resets of can_afford leave it:  *)
(* the usage of a period whose key changed since last_reset is zeroed for  *)
(* every service, all other usage is unchanged.                            *)
(***************************************************************************)
C30_DeniedDebitsNothing ==
  /\ [][DeniedCascades]_vars
  /\ [][(LoopStepOn("elevenlabs") /\ voice.available["elevenlabs"] /\ SpeechDenied) =>
          \A s \in Services : \A p \in Periods :
             UsageOf(budget_data', s, p) = FreshUsage(budget_data, s, p)]_vars
  /\ [][OnlyPremiumTouchesLedger]_vars
  /\ []LowerTierIsFree

\* on a later day a text too long for the daily limit was denied: no
\* synthesis call, yesterday's daily usage was reset, edge_tts spoke for free
C30_Witness ==
  /\ speech.pc = "idle"
  /\ speech.count = 2
  /\ today = 3
  /\ speech.tried = << [name |-> "elevenlabs", outcome |-> "denied"],
                       [name |-> "edge_tts", outcome |-> "played"] >>
  /\ speech.synthesized = 0
  /\ speech.result.cost = 0
  /\ UsageOf(budget_data, "elevenlabs", "daily") = 0
  /\ UsageOf(budget_data, "elevenlabs", "weekly") > 0

\* agent n has never failed a request
NeverFailed(n) ==
  router.agents[n].successful_requests = router.agents[n].total_requests

(***************************************************************************)
(* C34: route_request marks an agent unhealthy only after several failed   *)
(* requests: a single failed attempt on a healthy agent that has no        *)
(* earlier failure leaves it healthy.                                      *)
(***************************************************************************)
C34_OneFailureKeepsHealthy ==
  [][\A n \in DOMAIN router.agents :
       (FailedAttemptOn(n) /\ NeverFailed(n) /\ router.agents[n].is_healthy)
          => router'.agents[n].is_healthy]_vars

(***************************************************************************)
(* C37: in every state reached through route_request calls and health     *)
(* rounds, an agent with at least one recorded request and a success rate  *)
(* below 0.5 is not healthy.                                               *)
(***************************************************************************)
C37_LowRateIsUnhealthy ==
  \A n \in DOMAIN router.agents :
     (/\ router.agents[n].total_requests >= 1
      /\ QLess(router.agents[n].success_rate, [num |-> 1, den |-> 2]))
        => ~router.agents[n].is_healthy

(***************************************************************************)
(* C38: within one route_request every attempt goes to an agent that is    *)
(* healthy at the moment of the attempt: an agent marked unhealthy gets no *)
(* further attempt in the remaining passes.                                *)
(***************************************************************************)
C38_AttemptsOnlyHealthy ==
  route.pc = "attempting" => router.agents[route.agents[route.index]].is_healthy

\* agent a is registered and declares capability c
Declares(a, c) ==
  /\ a \in DOMAIN router.agents
  /\ \E i \in 1..Len(router.agents[a].capabilities) :
        router.agents[a].capabilities[i] = c

\* every capability and agent name the registry has come across
KnownCapabilities ==
  DOMAIN router.capability_map
    \cup UNION {Range(config.capabilities) : config \in RegistryConfigs}
    \cup UNION {Range(router.agents[a].capabilities) : a \in DOMAIN router.agents}
KnownNames ==
  DOMAIN router.agents
    \cup {config.name : config \in RegistryConfigs}
    \cup UNION {Range(router.capability_map[c]) : c \in DOMAIN router.capability_map}

(***************************************************************************)
(* C36: after any sequence of register_agent and unregister_agent calls,   *)
(* capability_map[c] contains the name a if and only if a is registered    *)
(* and declares c; so the lookup for c returns only agents that declare c, *)
(* and get_capabilities lists only capabilities with a local handler or a  *)
(* registered agent declaring them.                                        *)
(***************************************************************************)
C36_MapMatchesRegistry ==
  /\ \A c \in KnownCapabilities : \A a \in KnownNames :
        (a \in Range(DictGet(router.capability_map, c, <<>>))) <=> Declares(a, c)
  /\ \A c \in KnownCapabilities :
        \A a \in Range(_get_agents_for_capability(router, c)) : Declares(a, c)
  /\ \A c \in get_capabilities(router) :
        c \in system_capabilities \/ \E a \in DOMAIN router.agents : Declares(a, c)

(***************************************************************************)
(* C35: with one caller and the limits left alone, the cost record_usage   *)
(* commits after a successful openai or claude call never exceeds the      *)
(* estimate that passed can_afford, so after every request the usage of    *)
(* every service stays within its limit in every configured period.        *)
(***************************************************************************)
C35_CommitWithinEstimate ==
  /\ pc = "record" => ActualCost(pos, request) <= EstimatedCost(pos, request)
  /\ \A s \in DOMAIN budget_data.limits :
        \A p \in DOMAIN budget_data.limits[s] :
           UsageIn(budget_data.usage, s, p) <= budget_data.limits[s][p]

\* the main loop has shown its answer to a command
Presented == app.pc = "idle" /\ app.count > 0

(***************************************************************************)
(* C33: when a command maps to a capability and the routed request         *)
(* succeeds, the LLM orchestrator is not invoked, no budget is spent and   *)
(* the main loop presents the routed data to the user as the answer; when  *)
(* no routed request succeeds, the command goes to the LLM orchestrator.   *)
(***************************************************************************)
C33_RoutedAnswerShown ==
  /\ (app.count > 0 /\ app.routed # "") =>
        /\ ~app.llm_invoked
        /\ ~app.spent
  /\ (Presented /\ app.routed # "") =>
        app.shown \in {"time_sentence", "result_sentence", "str_of_data"}
  /\ (app.count > 0 /\ app.routed = "") => app.llm_invoked

\* the classes that need a credential, or for ollama a reachable server
ProbedClasses == {"openai", "claude", "ollama", "elevenlabs"}

(***************************************************************************)
(* C31: constructing an LLM or voice provider never raises; when no        *)
(* recognized credential is set or the endpoint is unreachable the         *)
(* provider ends construction with is_available = false, and a later       *)
(* generate_response or speak on it returns a failure result instead of    *)
(* raising.                                                                *)
(***************************************************************************)
C31_ConstructionNeverRaises ==
  /\ provider.pc # "raised"
  /\ (/\ provider.pc = "built"
      /\ provider.class \in ProbedClasses
      /\ ~provider.env.key \/ ~provider.env.backend)
        => /\ ~provider.is_available
           /\ provider.response.kind \in {"none", "returned"}
           /\ ~provider.response.success

(***************************************************************************)
(* C32 as stated: generate_response of the emergency provider returns      *)
(* success = true, cost 0 and a non-empty canned response for every        *)
(* message list and every model name.                                      *)
(***************************************************************************)
C32_AsStated ==
  (provider.class = "emergency" /\ provider.response.kind # "none")
    => /\ provider.response.success
       /\ provider.response.cost = 0
       /\ provider.response.content # ""

(***************************************************************************)
(* C32: generate_response of the emergency provider returns success =      *)
(* true, cost 0 and a non-empty canned response for every message list     *)
(* when the model is left out or is "emergency_v1"; for any other model    *)
(* name it returns success = false with empty content.                     *)
(***************************************************************************)
C32_EmergencyAnswersOwnModel ==
  (provider.class = "emergency" /\ provider.response.kind # "none")
    => IF provider.response.asked \in {"None", "emergency_v1"}
       THEN /\ provider.response.kind = "returned"
            /\ provider.response.success
            /\ provider.response.cost = 0
            /\ provider.response.content # ""
       ELSE /\ provider.response.kind = "returned"
            /\ ~provider.response.success
            /\ provider.response.content = ""

\* the emergency provider answered a list whose last user message is about
\* the weather and the status, with the model left out
C32_Witness ==
  /\ provider.class = "emergency"
  /\ provider.response.asked = "None"
  /\ provider.response.success
  /\ provider.response.content = "weather"
  /\ provider.total_requests = 2

(***************************************************************************)
(* C39: when a recognized key is set (ollama: the server is reachable and  *)
(* lists models), the package is there and the backend answers the probe,  *)
(* the provider constructed reports is_available = true and still holds    *)
(* the client and key configured during initialization.                    *)
(***************************************************************************)
C39_ProbedProviderAvailable ==
  (/\ provider.pc = "built"
   /\ provider.class \in ProbedClasses
   /\ provider.env.key /\ provider.env.package /\ provider.env.backend)
     => /\ provider.is_available
        /\ provider.class # "ollama" => (provider.client /\ provider.api_key)

(***************************************************************************)
(* C40: after any sequence of add_style, remove_style and                  *)
(* set_default_style on a TextOnlyProvider, speak(text) with non-blank     *)
(* text within the length limit and no explicit voice succeeds.            *)
(***************************************************************************)
C40_TextOnlyAlwaysSpeaks ==
  provider.session =>
     /\ provider.response.kind = "returned"
     /\ provider.response.success

====
